---------------------------- MODULE Spec2Model ----------------------------
(***************************************************************************)
(* World Time Zone Map (Option-Zero/world-time).                           *)
(*                                                                         *)
(* The module models                                                       *)
(*   - ColorUtils.oklchToRgb (src/app.js 517-557), on IEEE doubles,        *)
(*   - the day/night terminator computation of spec.md section 4.2,        *)
(*   - the hover / click / pin handlers of the three TimeZoneMap classes   *)
(*     of src/app.js: the card-based one (lines 3-511), the first          *)
(*     panel-based one (lines 813-1205) and the second panel-based one     *)
(*     (lines 1214-1763).                                                  *)
(*                                                                         *)
(* Numbers.  JavaScript numbers are IEEE doubles.  oklchToRgb computes on  *)
(* the floating-point numbers defined below; elsewhere a real x is the     *)
(* integer round(x * Unit), products are formed exactly in two limbs and   *)
(* rounded to the nearest unit.                                            *)
(***************************************************************************)
EXTENDS Integers, Sequences, FiniteSets, TLC

VARIABLES
    lch,              \* the (l, c, h) argument of the oklchToRgb call, or NoValue
    rgb,              \* the result of the last oklchToRgb call, or NoValue
    ts,               \* the timestamp handed to SolarTerminator, or NoValue
    terminator,       \* the sequence SolarTerminator returned
    timezones,        \* this.timezones: the offsets of the groups, ascending
    highlightedTz,    \* this.highlightedTz
    pinnedTimezones,  \* this.pinnedTimezones
    zones,            \* the map paths path.timezone, in document order
    labels,           \* the groups g.timezone-label, in document order
    cards,            \* the .timezone-card elements of #timezone-grid, in order
    panels,           \* the .timezone-panel elements of #timezone-panels, in order
    lastEvent,        \* the handler that ran last, with its argument
    pc,               \* the statements of init() that have completed, in order
    interval,         \* TRUE when startTimeClock has registered its setInterval
    now,              \* the clock: seconds since midnight UTC
    localZone,        \* the time zone of the browser: what getTimezoneOffset returns
    colorScale,       \* this.colorScale: offset -> colour, for the offsets it knows
    fills,            \* the fill of each map path and the background of each card
    cardTimes,        \* the .time-compact and .time-display elements of the cards
    callouts,         \* the text.callout-time elements of the labels group
    args,             \* the arguments of a call of a pure function, or NoValue
    ret,              \* what that call returned, or NoValue
    currentSourceIndex, \* currentSourceIndex of the fetch script
    requests,         \* the requests tryNextSource has issued, in order
    outcome,          \* the terminal calls of the fetch script, in order
    request,          \* the request of download-real-timezones.js and its response
    chunks,           \* the chunks of the body the server sends
    data,             \* data of processResponse: the chunks received so far
    downloadedBytes,  \* downloadedBytes of processResponse
    files,            \* the files written, in order: [name, content]
    exitCode          \* the code the process exited with, or NoValue

vars == <<lch, rgb, ts, terminator, timezones, highlightedTz, pinnedTimezones,
          zones, labels, cards, panels, lastEvent, pc, interval, now, localZone,
          colorScale, fills, cardTimes, callouts, args, ret, currentSourceIndex, requests, outcome,
          request, chunks, data, downloadedBytes, files, exitCode>>

colorVars == <<lch, rgb>>
termVars  == <<ts, terminator>>
uiVars    == <<timezones, highlightedTz, pinnedTimezones, zones, labels, cards,
               panels, lastEvent>>

liveVars  == <<pc, interval, now, localZone, colorScale, fills, cardTimes, callouts>>
callVars  == <<args, ret>>
fetchVars == <<currentSourceIndex, requests, outcome>>
downloadVars == <<request, chunks, data, downloadedBytes, files, exitCode>>

\* the variables that the handlers of pointer events, oklchToRgb and
\* SolarTerminator leave alone
otherVars == <<liveVars, callVars, fetchVars, downloadVars>>

\* no value yet: the empty sequence; a value v that is present is <<v>>
NoValue == <<>>

\* null, as the value of highlightedTz: unequal to every offset
Null == -(10^6)

(***************************************************************************)
(* Fixed-point arithmetic                                                  *)
(***************************************************************************)
Unit == 10^7
Limb == 10^4

Abs(x) == IF x < 0 THEN -x ELSE x

\* (Math.sign(c) || 1): -1 for negative c, 1 for zero and positive c
SignOr1(x) == IF x < 0 THEN -1 ELSE 1

Max(a, b) == IF a > b THEN a ELSE b
Min(a, b) == IF a < b THEN a ELSE b

\* For a, b >= 0: <<q, r>> with a * b = q * Unit + r and 0 <= r < Unit.
MulParts(a, b) ==
    LET ah == a \div Limb
        al == a % Limb
        bh == b \div Limb
        bl == b % Limb
        M  == ah * bl + al * bh
        lo == (M % 1000) * Limb + al * bl
    IN  <<ah * bh * 10 + (M \div 1000) + (lo \div Unit), lo % Unit>>

\* <<q, r>> rounded to the nearest unit
RoundParts(p) == IF 2 * p[2] >= Unit THEN p[1] + 1 ELSE p[1]

\* The product of two fixed-point numbers, rounded to the nearest unit.
Mul(a, b) ==
    (IF (a < 0) = (b < 0) THEN 1 ELSE -1) * RoundParts(MulParts(Abs(a), Abs(b)))

(***************************************************************************)
(* Math.sin, Math.cos: reduction to the first octant, then the Taylor      *)
(* polynomial (degree 9 for sin, 10 for cos, error below 2e-9).            *)
(***************************************************************************)
HalfPi == 15707963
Pi     == 2 * HalfPi
TwoPi  == 62831853

\* x * pi / 180 for an integer number of degrees
DegToRad(d) == d * 174532 + ((d * 92520 + 50000) \div 100000)

\* one factor of the nested polynomial: 1 - x2 * t / n
TaylorStep(x2, t, n) == Unit - (Mul(x2, t) \div n)

\* x * (1 - x2/6 * (1 - x2/20 * (1 - x2/42 * (1 - x2/72))))
TaylorSinPoly(x, x2) ==
    Mul(x, TaylorStep(x2, TaylorStep(x2, TaylorStep(x2, Unit - (x2 \div 72), 42), 20), 6))

TaylorSin(x) == TaylorSinPoly(x, Mul(x, x))

\* 1 - x2/2 * (1 - x2/12 * (1 - x2/30 * (1 - x2/56 * (1 - x2/90))))
TaylorCosPoly(x2) ==
    TaylorStep(x2, TaylorStep(x2, TaylorStep(x2, TaylorStep(x2, Unit - (x2 \div 90), 56), 30), 12), 2)

TaylorCos(x) == TaylorCosPoly(Mul(x, x))

\* sin on [0, pi/2]
SinQuadrant(x) ==
    IF 2 * x <= HalfPi THEN TaylorSin(x) ELSE TaylorCos(HalfPi - x)

\* y in [0, 2 pi) folded into [0, pi/2]
FoldQuadrant(y) ==
    IF y <= HalfPi THEN y
    ELSE IF y <= Pi THEN Pi - y
    ELSE IF y <= Pi + HalfPi THEN y - Pi
    ELSE TwoPi - y

\* sin on [0, 2 pi)
SinPeriod(y) == (IF y <= Pi THEN 1 ELSE -1) * SinQuadrant(FoldQuadrant(y))

Math_sin(x) == SinPeriod(x % TwoPi)

Math_cos(x) == Math_sin(x + HalfPi)

(***************************************************************************)
(* JavaScript numbers.  A number is a record [k, s, m, e]: k is "num",     *)
(* "inf" or "nan"; s is the sign, 1 or -1; m is the mantissa, Limbs limbs  *)
(* of LimbBits bits each, the first one not zero unless the number is      *)
(* zero; the value is s * (m[1] + m[2]/Radix + m[3]/Radix^2 + ...) *       *)
(* Radix^e.  A double is such a number with at most 53 significant bits,   *)
(* the last of them of weight 2^-1074 or more, and below 2^1024; the       *)
(* operators +, -, * and / round their exact result to the nearest double, *)
(* ties to the even mantissa (IEEE 754).  The sign of a zero is not kept:  *)
(* it shows in no channel.                                                 *)
(***************************************************************************)
LimbBits == 14
Radix == 2^LimbBits
Limbs == 8

\* a double: the bits of its mantissa, the weight of its last bit, its bound
Precision == 53
MinBit == -1074
MaxBit == 1024

Zeros(n) == [i \in 1..n |-> 0]

Zero == [k |-> "num", s |-> 1, m |-> Zeros(Limbs), e |-> 0]
Infinity(s) == [k |-> "inf", s |-> s, m |-> Zeros(Limbs), e |-> 0]
NaN == [k |-> "nan", s |-> 1, m |-> Zeros(Limbs), e |-> 0]

IsZero(x) == x.k = "num" /\ x.m[1] = 0

\* JavaScript evaluates an operand before the operation that uses it
Evaluated(x) == x.k \in {"num", "inf", "nan"}

\* the same for a sequence of limbs
Computed(d) == Len(d) >= 0

\* the sequence d compares below the sequence t, limb by limb
RECURSIVE LimbsBelow(_, _, _)
LimbsBelow(d, t, i) ==
    IF i > Len(t) \/ i > Len(d) THEN FALSE
    ELSE IF d[i] # t[i] THEN d[i] < t[i]
    ELSE LimbsBelow(d, t, i + 1)

\* the index of the first limb of d that is not zero, Len(d) + 1 if there is none
FirstOf(set, none) == IF set = {} THEN none ELSE CHOOSE i \in set : \A j \in set : i <= j

FirstLimb(d) == FirstOf({i \in 1..Len(d) : d[i] # 0}, Len(d) + 1)

\* the limb of d at index i, zero beyond its ends
LimbOf(d, i) == IF i >= 1 /\ i <= Len(d) THEN d[i] ELSE 0

\* the limbs of d from index i on, cut or padded to Limbs limbs
Window(d, i) == [j \in 1..Limbs |-> LimbOf(d, i + j - 1)]

\* the number s * (d[1] + d[2]/Radix + ...) * Radix^e cut to Limbs limbs
PackAt(s, d, e, i) ==
    IF i > Len(d) THEN Zero
    ELSE [k |-> "num", s |-> s, m |-> Window(d, i), e |-> e - (i - 1)]

Pack(s, d, e) == PackAt(s, d, e, FirstLimb(d))

\* columns (any integers) to limbs in 0..base-1: the columns lo..hi with the
\* carry t coming in, as <<carry out, limbs>>; by halves, the right one first
RECURSIVE CarrySpan(_, _, _, _, _)
CarryJoin(left, right) == <<left[1], left[2] \o right[2]>>

CarryLeft(cols, base, lo, mid, right) ==
    CASE Computed(right[2]) -> CarryJoin(CarrySpan(cols, base, lo, mid, right[1]), right)

CarrySpan(cols, base, lo, hi, t) ==
    IF lo > hi THEN <<t, <<>>>>
    ELSE IF lo = hi THEN <<(cols[lo] + t) \div base, <<(cols[lo] + t) % base>>>>
    ELSE CarryLeft(cols, base, lo, (lo + hi) \div 2,
                   CarrySpan(cols, base, ((lo + hi) \div 2) + 1, hi, t))

\* the carry out in front of the limbs
CarryOut(span) == <<span[1]>> \o span[2]

Carried(cols) == CarryOut(CarrySpan(cols, Radix, 1, Len(cols), 0))

\* the number of bits of the limb n
RECURSIVE BitLength(_)
BitLength(n) == IF n = 0 THEN 0 ELSE 1 + BitLength(n \div 2)

\* some limb of d from index i on is not zero
AnyFrom(d, i) == \E j \in i..Len(d) : d[j] # 0

(***************************************************************************)
(* Rounding to a double.  d are limbs with d[1] # 0, the value is          *)
(* d[1] Radix^e + d[2] Radix^(e-1) + ..., plus less than one unit of the   *)
(* last limb when sticky holds.                                            *)
(***************************************************************************)
\* the weight (as an exponent of 2) of the first bit of the value
TopBit(d, e) == LimbBits * e + BitLength(d[1]) - 1

\* the weight of the last bit a double keeps of it
LastBit(d, e) == Max(TopBit(d, e) - (Precision - 1), MinBit)

\* what is cut: top against half a unit of the last bit kept
MoreThanHalf(top, half, below, odd) == top > half \/ (top = half /\ (below \/ odd))

\* round to nearest, ties to even: the limb iq holds the last bit kept, at bit o
RoundsUp(d, iq, o, sticky) ==
    IF o >= 1
    THEN MoreThanHalf(LimbOf(d, iq) % 2^o, 2^(o - 1), AnyFrom(d, iq + 1) \/ sticky,
                      (LimbOf(d, iq) \div 2^o) % 2 = 1)
    ELSE MoreThanHalf(LimbOf(d, iq + 1), Radix \div 2, AnyFrom(d, iq + 2) \/ sticky,
                      LimbOf(d, iq) % 2 = 1)

\* mode "nearest" is the rounding of the arithmetic; "down" cuts, "up" is the
\* double after the one "down" gives
AddsUnit(mode, d, iq, o, sticky) ==
    CASE mode = "nearest" -> RoundsUp(d, iq, o, sticky)
      [] mode = "down" -> FALSE
      [] mode = "up" -> TRUE

\* the limbs kept, one unit of the last bit added when up holds
CutLimbs(d, iq, o, up) ==
    [i \in 1..iq |->
        IF i < iq THEN LimbOf(d, i)
        ELSE (LimbOf(d, iq) \div 2^o) * 2^o + (IF up THEN 2^o ELSE 0)]

\* 2^1024 and beyond is Infinity
InRange(x) ==
    IF ~IsZero(x) /\ LimbBits * x.e + BitLength(x.m[1]) - 1 >= MaxBit
    THEN Infinity(x.s) ELSE x

RoundCut(s, d, e, iq, o, sticky, mode) ==
    IF iq < 1 THEN (IF mode = "up" THEN Pack(s, <<2^(MinBit % LimbBits)>>, MinBit \div LimbBits) ELSE Zero)
    ELSE InRange(Pack(s, Carried(CutLimbs(d, iq, o, AddsUnit(mode, d, iq, o, sticky))), e + 1))

RoundAt(s, d, e, q, sticky, mode) ==
    RoundCut(s, d, e, e + 1 - (q \div LimbBits), q % LimbBits, sticky, mode)

RoundNormal(s, d, e, sticky, mode) == RoundAt(s, d, e, LastBit(d, e), sticky, mode)

RoundFrom(s, d, e, i, sticky, mode) ==
    IF i > Len(d) THEN Zero
    ELSE RoundNormal(s, SubSeq(d, i, Len(d)), e - (i - 1), sticky, mode)

\* the double for s * (d[1] + d[2]/Radix + ...) * Radix^e
RoundToDouble(s, d, e, sticky, mode) == RoundFrom(s, d, e, FirstLimb(d), sticky, mode)

\* the two doubles next to the number x, which is not a double
Neighbours(x) ==
    {RoundToDouble(x.s, x.m, x.e, TRUE, "down"), RoundToDouble(x.s, x.m, x.e, TRUE, "up")}

(***************************************************************************)
(* Multiplication                                                          *)
(***************************************************************************)
\* sum of a[i] * b[k + 1 - i] for i in lo..hi
RECURSIVE Dot(_, _, _, _, _)
Dot(a, b, k, i, hi) == IF i > hi THEN 0 ELSE a[i] * b[k + 1 - i] + Dot(a, b, k, i + 1, hi)

Column(a, b, k) ==
    Dot(a, b, k, IF k > Limbs THEN k + 1 - Limbs ELSE 1, IF k > Limbs THEN Limbs ELSE k)

\* the limbs of the exact product of two mantissas, the first of weight Radix
ProductLimbs(a, b) == Carried([k \in 1..(2 * Limbs - 1) |-> Column(a, b, k)])

\* x * y of two doubles
FMul(x, y) ==
    IF x.k = "nan" \/ y.k = "nan" THEN NaN
    ELSE IF x.k = "inf" \/ y.k = "inf"
         THEN IF IsZero(x) \/ IsZero(y) THEN NaN ELSE Infinity(x.s * y.s)
    ELSE IF IsZero(x) \/ IsZero(y) THEN Zero
    ELSE RoundToDouble(x.s * y.s, ProductLimbs(x.m, y.m), x.e + y.e + 1, FALSE, "nearest")

\* x * y cut to Limbs limbs
BMul(x, y) ==
    IF IsZero(x) \/ IsZero(y) THEN Zero
    ELSE Pack(x.s * y.s, ProductLimbs(x.m, y.m), x.e + y.e + 1)

(***************************************************************************)
(* Addition                                                                *)
(***************************************************************************)
\* the limb of weight Radix^(top - i + 1) of the mantissa m of exponent e
LimbAt(m, e, top, i) == LimbOf(m, i - (top - e))

\* an operand too small to reach the limbs of the sum: only its sign counts
Sticky(s, top) == [k |-> "num", s |-> s, m |-> <<1>> \o Zeros(Limbs - 1), e |-> top - Limbs - 1]

Seen(x, top) == IF top - x.e >= Limbs THEN Sticky(x.s, top) ELSE x

\* the columns of x + y, from the weight of the larger exponent down
SumColumns(x, y, top) ==
    [i \in 1..(2 * Limbs) |-> x.s * LimbAt(x.m, x.e, top, i) + y.s * LimbAt(y.m, y.e, top, i)]

Negated(cols) == [i \in 1..Len(cols) |-> -cols[i]]

\* the sum as a double (exact is FALSE) or cut to Limbs limbs
PackSum(cols, top, i, double) ==
    IF i > Len(cols) THEN Zero
    ELSE IF double
         THEN RoundToDouble(IF cols[i] < 0 THEN -1 ELSE 1,
                            Carried(IF cols[i] < 0 THEN Negated(cols) ELSE cols), top + 1, FALSE, "nearest")
         ELSE Pack(IF cols[i] < 0 THEN -1 ELSE 1,
                   Carried(IF cols[i] < 0 THEN Negated(cols) ELSE cols), top + 1)

SumOf(cols, top, double) == PackSum(cols, top, FirstLimb(cols), double)

SumAt(x, y, top, double) == SumOf(SumColumns(Seen(x, top), Seen(y, top), top), top, double)

\* x + y of two doubles
FAdd(x, y) ==
    IF x.k = "nan" \/ y.k = "nan" THEN NaN
    ELSE IF x.k = "inf" THEN (IF y.k = "inf" /\ y.s # x.s THEN NaN ELSE x)
    ELSE IF y.k = "inf" THEN y
    ELSE IF IsZero(x) THEN y
    ELSE IF IsZero(y) THEN x
    ELSE SumAt(x, y, Max(x.e, y.e), TRUE)

FNeg(x) == IF x.k = "nan" THEN x ELSE [x EXCEPT !.s = -x.s]

FSub(x, y) == FAdd(x, FNeg(y))

\* x + y cut to Limbs limbs
BAdd(x, y) ==
    IF IsZero(x) THEN y
    ELSE IF IsZero(y) THEN x
    ELSE SumAt(x, y, Max(x.e, y.e), FALSE)

BSub(x, y) == BAdd(x, FNeg(y))

\* Math.abs
Math_abs(x) == IF x.k = "nan" THEN x ELSE [x EXCEPT !.s = 1]

\* x > y for x, y >= 0
Exceeds(x, y) ==
    IF x.k = "nan" \/ y.k = "nan" THEN FALSE
    ELSE IF x.k = "inf" THEN y.k # "inf"
    ELSE IF y.k = "inf" THEN FALSE
    ELSE IF IsZero(x) THEN FALSE
    ELSE IF IsZero(y) THEN TRUE
    ELSE IF x.e # y.e THEN x.e > y.e
    ELSE LimbsBelow(y.m, x.m, 1)

(***************************************************************************)
(* Division by an integer, powers of two                                   *)
(***************************************************************************)
\* long division by an integer n in 1..10^5: the limbs lo..hi of m with the
\* remainder rem coming in, as <<limbs of the quotient, remainder>>; by halves
RECURSIVE DivideSpan(_, _, _, _, _)
DivideJoin(left, right) == <<left[1] \o right[1], right[2]>>

DivideRight(m, n, mid, hi, left) ==
    CASE Computed(left[1]) -> DivideJoin(left, DivideSpan(m, n, mid + 1, hi, left[2]))

DivideSpan(m, n, lo, hi, rem) ==
    IF lo > hi THEN <<<<>>, rem>>
    ELSE IF lo = hi THEN <<<<(rem * Radix + m[lo]) \div n>>, (rem * Radix + m[lo]) % n>>
    ELSE DivideRight(m, n, (lo + hi) \div 2, hi, DivideSpan(m, n, lo, (lo + hi) \div 2, rem))

\* <<the limbs of m / n, the remainder>>
LongDivision(m, n) == DivideSpan(m, n, 1, Len(m), 0)

RoundQuotient(s, qr, e) == RoundToDouble(s, qr[1], e, qr[2] # 0, "nearest")

\* x / n of a double x and an integer n in 1..10^5
DivideBy(x, n) ==
    IF x.k # "num" \/ IsZero(x) THEN x
    ELSE RoundQuotient(x.s, LongDivision(x.m \o Zeros(2), n), x.e)

\* x / n cut to Limbs limbs
BDivideBy(x, n) ==
    IF IsZero(x) THEN x
    ELSE Pack(x.s, LongDivision(x.m \o Zeros(1), n)[1], x.e)

\* x * n for an integer n in 0..Radix, cut to Limbs limbs
BTimes(x, n) ==
    IF IsZero(x) \/ n = 0 THEN Zero
    ELSE Pack(x.s, Carried([i \in 1..Limbs |-> x.m[i] * n]), x.e + 1)

\* x * 2^p
Scaled(x, p) == [BTimes(x, 2^(p % LimbBits)) EXCEPT !.e = @ + (p \div LimbBits)]

\* the integer n, -(2^28) < n < 2^28, as a number
FromInt(n) ==
    IF n < 0 THEN Pack(-1, <<(-n) \div Radix, (-n) % Radix>>, 1)
    ELSE Pack(1, <<n \div Radix, n % Radix>>, 1)

One == FromInt(1)

(***************************************************************************)
(* Decimal literals                                                        *)
(***************************************************************************)
Myriad == 10^4

\* the limbs of nat * f + a, for nat an integer in limbs and f, a in 0..10^4
TimesPlus(nat, f, a) ==
    Carried([i \in 1..Len(nat) |-> nat[i] * f + (IF i = Len(nat) THEN a ELSE 0)])

\* the integer whose decimal digits, four to a limb, are d[i..]
RECURSIVE NatOfDecimal(_, _, _)
NatOfDecimal(d, i, acc) ==
    CASE Computed(acc) ->
    IF i > Len(d) THEN acc ELSE NatOfDecimal(d, i + 1, TimesPlus(acc, Myriad, d[i]))

\* nat * f^n, by halves so that the steps do not nest n deep
RECURSIVE TimesPower(_, _, _)
TimesPower(nat, f, n) ==
    CASE Computed(nat) ->
    IF n = 0 THEN nat
    ELSE IF n = 1 THEN TimesPlus(nat, f, 0)
    ELSE TimesPower(TimesPower(nat, f, n \div 2), f, n - n \div 2)

\* one step of OverPower: <<quotient, something was cut so far>>
OverStep(qr, cut) == <<qr[1], cut \/ qr[2] # 0>>

\* <<nat / f^n cut to an integer, something was cut>>, by halves
RECURSIVE OverPower(_, _, _)
OverPower(qr, f, n) ==
    CASE Computed(qr[1]) ->
    IF n = 0 THEN qr
    ELSE IF n = 1 THEN OverStep(LongDivision(qr[1], f), qr[2])
    ELSE OverPower(OverPower(qr, f, n \div 2), f, n - n \div 2)

\* <<limbs, exponent of the first limb, something was cut>> of nat * 10^(4 k)
\* for an integer nat in limbs, to Limbs limbs or more
Scaled10(nat, k) ==
    IF k >= 0 THEN <<TimesPower(nat, Myriad, k), FALSE>>
    ELSE OverPower(<<nat \o Zeros(Limbs - k), FALSE>>, Myriad, -k)

ExponentOf(nat, k) == IF k >= 0 THEN Len(nat) - 1 ELSE Len(nat) - 1 - (Limbs - k)

DoubleOf(s, qr, k) == RoundToDouble(s, qr[1], ExponentOf(qr[1], k), qr[2], "nearest")

\* the double a decimal literal denotes: the one nearest to
\* s * (d[1] + d[2]/10^4 + d[3]/10^8 + ...) * 10^(4 e)
Num(s, d, e) == DoubleOf(s, Scaled10(NatOfDecimal(d, 1, <<0>>), e - (Len(d) - 1)), e - (Len(d) - 1))

\* the double nearest to n * 10^e10, for an integer n, |n| < 10^5
Dec(n, e10) ==
    Num(IF n < 0 THEN -1 ELSE 1,
        <<(Abs(n) * 10^(e10 % 4)) \div Myriad, (Abs(n) * 10^(e10 % 4)) % Myriad>>,
        (e10 \div 4) + 1)

BigOf(qr, k) == Pack(1, qr[1], ExponentOf(qr[1], k))

\* the same value cut to Limbs limbs
Big(d, e) == BigOf(Scaled10(NatOfDecimal(d, 1, <<0>>), e - (Len(d) - 1)), e - (Len(d) - 1))

(***************************************************************************)
(* Math.round                                                              *)
(***************************************************************************)
\* what stands for NaN where a number is a TLA+ integer
NaNInt == -(10^9)

\* the fraction whose limbs are f is at least (strict: more than) one half
HalfOrMore(f, strict) ==
    IF strict THEN LimbsBelow(<<Radix \div 2>> \o Zeros(Len(f) - 1), f, 1) ELSE f[1] >= Radix \div 2

\* the integer part i and the fraction 0.f of |x| rounded as Math.round does:
\* halves go up, so -2.5 gives -2
RoundHalfUp(s, i, f) == s * (i + (IF HalfOrMore(f, s = -1) THEN 1 ELSE 0))

\* Math.round(x); an integer beyond -Radix..Radix is given as -Radix or Radix
Math_round(x) ==
    IF x.k = "nan" THEN NaNInt
    ELSE IF x.k = "inf" \/ x.e > 0 THEN x.s * Radix
    ELSE IF x.e < -1 THEN 0
    ELSE IF x.e = -1 THEN RoundHalfUp(x.s, 0, x.m)
    ELSE RoundHalfUp(x.s, x.m[1], Tail(x.m))

(***************************************************************************)
(* Math.sin, Math.cos, Math.pow.  ECMA-262 leaves their value to the       *)
(* engine ("implementation-approximated"); engines return one of the two   *)
(* doubles next to the exact value.  Each function is the set of these     *)
(* two, found from the value computed to Limbs limbs.                      *)
(***************************************************************************)
\* Math.PI, the double nearest to pi
Math_PI == Num(1, <<3, 1415, 9265, 3589, 7930>>, 0)

\* pi / 2 and pi / 4
HalfPiBig == Big(<<1, 5707, 9632, 6794, 8966, 1923, 1321, 6916, 3975, 1442>>, 0)
QuarterPiBig == Big(<<7853, 9816, 3397, 4483, 961, 5660, 8458, 1987, 5721>>, -1)

\* 2 / pi: the limbs of its fraction that a double below 2^1024 can reach
TwoOverPi ==
    <<10430, 6198, 14649, 1045, 2687, 629, 8007, 13620, 14192, 3510, 2646,
      6460, 4324, 1055, 14661, 9131, 14254, 15446, 1756, 9326, 3728, 9437,
      2944, 1609, 3002, 8349, 1608, 7422, 1914, 12747, 1190, 10046, 14880,
      9055, 5306, 15172, 8506, 6599, 154, 13407, 8080, 5017, 1880, 14723,
      5326, 8009, 12817, 8075, 12158, 4739, 11391, 14487, 16375, 8281, 8255,
      12079, 1122, 13728, 10676, 8045, 3487, 11506, 7980, 2487, 5073, 9206,
      6777, 8170, 2909, 4731, 11039, 11237, 15454, 13264, 7399, 14218, 5284,
      11942, 12269, 8113, 2019, 5584, 8536, 816, 4543, 1974, 11951, 12495>>

\* the limbs of the fraction of x * 2/pi that are computed
FractionLimbs == 14

\* the column of weight Radix^c of m * Radix^e * 2/pi
RECURSIVE TurnColumn(_, _, _, _)
TurnColumn(m, e, c, i) ==
    IF i > 5 THEN 0
    ELSE m[i] * LimbOf(TwoOverPi, e - i + 1 - c) + TurnColumn(m, e, c, i + 1)

\* x * 2/pi modulo Radix for a double x: <<carry, integer limb, fraction limbs>>
Turns(x) == Carried([n \in 1..(FractionLimbs + 1) |-> TurnColumn(x.m, x.e, 1 - n, 1)])

\* the quarter turns nearest to x, modulo 4
QuarterOf(t) == (t[2] + (IF t[3] >= Radix \div 2 THEN 1 ELSE 0)) % 4

\* what is left of x * 2/pi beyond its nearest integer, in -1/2..1/2
TurnRest(t) ==
    SumOf([i \in 1..FractionLimbs |->
              IF i = 1 THEN (IF t[3] >= Radix \div 2 THEN -1 ELSE 0) ELSE t[i + 1]], 0, FALSE)

\* one factor of the nested Taylor polynomial: 1 - x2 * t / n
TaylorFactor(x2, t, n) == BSub(One, BDivideBy(BMul(x2, t), n))

\* (1 - x2/(n(n+1)) (1 - x2/((n+2)(n+3)) (... (1 - x2/(k(k+1)) acc)))), the
\* factors from n = k down to n = 1 or 2
RECURSIVE TaylorTail(_, _, _)
TaylorTail(x2, n, acc) ==
    CASE Evaluated(acc) ->
        IF n <= 0 THEN acc ELSE TaylorTail(x2, n - 2, TaylorFactor(x2, acc, n * (n + 1)))

SinOfSquare(x, x2) == CASE Evaluated(x2) -> BMul(x, TaylorTail(x2, 28, One))
CosOfSquare(x2) == CASE Evaluated(x2) -> TaylorTail(x2, 27, One)

\* sin and cos on [-pi/4, pi/4]
SinSeries(x) == SinOfSquare(x, BMul(x, x))
CosSeries(x) == CosOfSquare(BMul(x, x))

\* sin(r + q pi/2)
SinQuarter(r, q) ==
    CASE Evaluated(r) ->
        IF q % 4 = 0 THEN SinSeries(r)
        ELSE IF q % 4 = 1 THEN CosSeries(r)
        ELSE IF q % 4 = 2 THEN FNeg(SinSeries(r))
        ELSE FNeg(CosSeries(r))

\* sin(|x| + shift pi/2) from the turns t of |x|
SinTurns(t, shift) == SinQuarter(BMul(TurnRest(t), HalfPiBig), QuarterOf(t) + shift)

\* sin(|x| + shift pi/2) for a double x # 0
SinAbs(x, shift) ==
    IF Exceeds(x, QuarterPiBig) THEN SinTurns(Turns(x), shift) ELSE SinQuarter(x, shift)

Signed(x, s) == [x EXCEPT !.s = @ * s]

\* sin(x + shift pi/2) for shift 0 and 1: NaN for an infinite x
SinShifted(x, shift) ==
    CASE x.k # "num" -> {NaN}
      [] IsZero(x) -> {IF shift = 0 THEN Zero ELSE One}
      [] OTHER -> Neighbours(Signed(SinAbs(Math_abs(x), shift), IF shift = 0 THEN x.s ELSE 1))

FSin(x) == SinShifted(x, 0)
FCos(x) == SinShifted(x, 1)

\* 2^(r/12) for r = 0..11, at index r + 1
TwelfthPowersOfTwo ==
    <<One,
      Big(<<1, 594, 6309, 4359, 2952, 6456, 1825, 2949, 4634, 1700>>, 0),
      Big(<<1, 1224, 6204, 8309, 3729, 8143, 3533, 496, 7917, 9516>>, 0),
      Big(<<1, 1892, 711, 5002, 7210, 6671, 7499, 9705, 6047, 5915>>, 0),
      Big(<<1, 2599, 2104, 9894, 8731, 6476, 7210, 6072, 7822, 8350>>, 0),
      Big(<<1, 3348, 3985, 4170, 343, 6483, 831, 8811, 8445, 2774>>, 0),
      Big(<<1, 4142, 1356, 2373, 950, 4880, 1688, 7242, 969, 8078>>, 0),
      Big(<<1, 4983, 707, 6876, 6814, 9879, 9280, 7320, 2979, 5796>>, 0),
      Big(<<1, 5874, 105, 1968, 1994, 7475, 1705, 6392, 7230, 8260>>, 0),
      Big(<<1, 6817, 9283, 507, 4290, 8606, 2250, 9524, 6642, 9790>>, 0),
      Big(<<1, 7817, 9743, 6280, 6786, 948, 452, 4111, 8102, 5015>>, 0),
      Big(<<1, 8877, 4862, 5363, 3869, 9328, 3826, 3133, 3506, 8752>>, 0)>>

\* the natural logarithm of 2
Ln2 == Big(<<6931, 4718, 559, 9453, 941, 7232, 1214, 5817, 6568>>, -1)

\* t^12
Pow12Of4(t4) == BMul(BMul(t4, t4), t4)
Pow12Of2(t2) == Pow12Of4(BMul(t2, t2))
Pow12(t) == Pow12Of2(BMul(t, t))

\* one step of Newton's iteration for t = u^(-1/12): t (13 - u t^12) / 12
RootStep(u, t) == BDivideBy(BMul(t, BSub(FromInt(13), BMul(u, Pow12(t)))), 12)

RECURSIVE RootSteps(_, _, _)
RootSteps(u, t, n) ==
    CASE Evaluated(t) -> IF n = 0 THEN t ELSE RootSteps(u, RootStep(u, t), n - 1)

\* u^(-1/12) for u in [1, 2), which lies in (0.943, 1]
InverseTwelfthRoot(u) == RootSteps(u, Big(<<9700>>, -1), 6)

\* t^7
Pow7Of2(t, t2) == BMul(BMul(BMul(t2, t2), t2), t)
Pow7(t) == CASE Evaluated(t) -> Pow7Of2(t, BMul(t, t))

\* w + w^2/2 + w^3/3 + ... = -ln(1 - w) for 0 <= w < 0.06: the terms n..LogTerms
LogTerms == 14
RECURSIVE LogSeries(_, _, _)
LogSeries(w, n, acc) ==
    CASE Evaluated(acc) ->
        IF n = 0 THEN acc ELSE LogSeries(w, n - 1, BMul(w, BAdd(BDivideBy(One, n), acc)))

\* ln(u 2^p) = p ln 2 + 12 (-ln t) for t = u^(-1/12)
LnOf(t, p) ==
    BAdd(BMul(FromInt(p), Ln2), BTimes(LogSeries(BSub(One, t), LogTerms, Zero), 12))

\* 1 / 2.4 as a double is 5/12 + 2^-54 / 3
GammaRest(ln) == Scaled(BDivideBy(ln, 3), -54)

\* e^v for |v| < 2^-45
ExpSmall(v) == BAdd(BAdd(One, v), BDivideBy(BMul(v, v), 2))

\* (u 2^p)^(1/2.4) for u in [1, 2) and t = u^(-1/12)
PowParts(u, t, p) ==
    CASE Evaluated(t) ->
        Scaled(BMul(BMul(BMul(u, Pow7(t)), TwelfthPowersOfTwo[((5 * p) % 12) + 1]),
                    ExpSmall(GammaRest(LnOf(t, p)))),
               (5 * p) \div 12)

PowScaled(u, p) == CASE Evaluated(u) -> PowParts(u, InverseTwelfthRoot(u), p)

PowBits(x, p) == PowScaled(Scaled(x, -p), p)

\* Math.pow(x, 1 / 2.4) for x >= 0
PowGamma(x) ==
    IF x.k # "num" \/ IsZero(x) \/ x = One THEN {x}
    ELSE Neighbours(PowBits(x, LimbBits * x.e + BitLength(x.m[1]) - 1))

(***************************************************************************)
(* ColorUtils.oklchToRgb                                                   *)
(***************************************************************************)
SignOf(c) == [k |-> "num", s |-> c.s, m |-> <<1>> \o Zeros(Limbs - 1), e |-> 0]

\* toSRGB: linear RGB to sRGB (gamma correction)
toSRGB(c) ==
    CASE Evaluated(c) ->
    IF Exceeds(Math_abs(c), Num(1, <<31, 3080>>, -1))
    THEN {FMul(SignOf(c), FSub(FMul(Num(1, <<1, 550>>, 0), p), Num(1, <<550>>, -1))) :
              p \in PowGamma(Math_abs(c))}
    ELSE {FMul(Num(1, <<12, 9200>>, 0), c)}

\* Math.max(0, Math.min(255, n))
Clamp255(n) == IF n = NaNInt THEN n ELSE Max(0, Min(255, n))

\* r = Math.max(0, Math.min(255, Math.round(toSRGB(r) * 255)))
ToByte(srgb) == CASE Evaluated(srgb) -> Clamp255(Math_round(FMul(srgb, FromInt(255))))

Channel(linear) == {ToByte(srgb) : srgb \in toSRGB(linear)}

\* LMS to linear RGB, one row of the matrix per channel
LinearR(l3, m3, s3) ==
    FAdd(FSub(FMul(Num(1, <<4, 767, 4166, 2100>>, 0), l3), FMul(Num(1, <<3, 3077, 1159, 1300>>, 0), m3)),
         FMul(Num(1, <<2309, 6992, 9200>>, -1), s3))

LinearG(l3, m3, s3) ==
    FSub(FAdd(FMul(Num(-1, <<1, 2684, 3800, 4600>>, 0), l3), FMul(Num(1, <<2, 6097, 5740, 1100>>, 0), m3)),
         FMul(Num(1, <<3413, 1939, 6500>>, -1), s3))

LinearB(l3, m3, s3) ==
    FAdd(FSub(FMul(Num(-1, <<41, 9608, 6300>>, -1), l3), FMul(Num(1, <<7034, 1861, 4700>>, -1), m3)),
         FMul(Num(1, <<1, 7076, 1470, 1000>>, 0), s3))

LmsToRgb(l3, m3, s3) ==
    CASE Evaluated(l3) /\ Evaluated(m3) /\ Evaluated(s3) ->
    [r  : Channel(LinearR(l3, m3, s3)),
     g  : Channel(LinearG(l3, m3, s3)),
     bl : Channel(LinearB(l3, m3, s3))]

Cube(x) == FMul(FMul(x, x), x)

OklabToRgb(l, a, b) ==
    CASE Evaluated(a) /\ Evaluated(b) ->
    LmsToRgb(Cube(FAdd(FAdd(l, FMul(Num(1, <<3963, 3777, 7400>>, -1), a)), FMul(Num(1, <<2158, 375, 7300>>, -1), b))),
             Cube(FSub(FSub(l, FMul(Num(1, <<1055, 6134, 5800>>, -1), a)), FMul(Num(1, <<638, 5417, 2800>>, -1), b))),
             Cube(FSub(FSub(l, FMul(Num(1, <<894, 8417, 7500>>, -1), a)), FMul(Num(1, <<1, 2914, 8554, 8000>>, 0), b))))

\* const a = c * Math.cos(hRad); const b = c * Math.sin(hRad): the pairs <<a, b>>
ChromaAxes(c, hRad) == {<<FMul(c, cos), FMul(c, sin)>> : cos \in FCos(hRad), sin \in FSin(hRad)}

OklchToOklab(l, c, hRad) ==
    CASE Evaluated(hRad) -> UNION {OklabToRgb(l, ab[1], ab[2]) : ab \in ChromaAxes(c, hRad)}

oklchToRgb(l, c, h) == OklchToOklab(l, c, DivideBy(FMul(h, Math_PI), 180))

(***************************************************************************)
(* The arguments the conversion is called with: a grid over                *)
(* L in [-0.25, 1], C in [0, 1], H in [-360, 180], a dark grey             *)
(* (L = 0.1020363974430319), a hue of many turns and finite numbers far    *)
(* beyond the grid.                                                        *)
(***************************************************************************)
LSteps == 5
CSteps == 2
HSteps == 4

Lightnesses ==
    {Dec(25 * i - 25, -2) : i \in 0..LSteps}
        \cup {Num(1, <<1020, 3639, 7443, 319>>, -1), Dec(1, 103)}
Chromas     == {Dec(5 * i, -1) : i \in 0..CSteps}
Hues        == {FromInt(135 * i - 360) : i \in 0..HSteps} \cup {FromInt(10^6), Dec(1, 308)}

UiIdle ==
    /\ timezones = <<>>
    /\ highlightedTz = Null
    /\ pinnedTimezones = {}
    /\ zones = <<>>
    /\ labels = <<>>
    /\ cards = <<>>
    /\ panels = <<>>
    /\ lastEvent = NoValue

TermIdle ==
    /\ ts = NoValue
    /\ terminator = <<>>

\* the statements of init(), in the order of its body
InitOrder_ClockFirst == <<"setupSVG", "startTimeClock", "loadData", "render">>

InitOrder == <<"setupSVG", "loadData", "render", "startTimeClock">>

\* the instants at which the page is observed: one second before a quarter
\* of an hour, and the quarter itself
WatchSteps == 3

FirstInstant == 3 * 3600 + 44 * 60 + 59

Instants == {FirstInstant + 900 * k + j : k \in 0..WatchSteps, j \in 0..1}

LastInstant == FirstInstant + 900 * WatchSteps + 1

\* init() has completed and the clock is left out of account: the page is
\* looked at in the last of the instants
LiveIdle ==
    /\ pc = InitOrder
    /\ interval = FALSE
    /\ now = LastInstant
    /\ localZone = [before |-> 0, after |-> 0, at |-> 0]
    /\ colorScale = <<>>
    /\ fills = <<>>
    /\ cardTimes = <<>>
    /\ callouts = <<>>

CallIdle ==
    /\ args = NoValue
    /\ ret = NoValue

\* the fetch script is left out of account
FetchIdle ==
    /\ currentSourceIndex = 0
    /\ requests = <<>>
    /\ outcome = <<>>

\* download-real-timezones.js is left out of account
DownloadIdle ==
    /\ request = [state |-> "sent", hops |-> 0, statusCode |-> 0]
    /\ chunks = <<>>
    /\ data = <<>>
    /\ downloadedBytes = 0
    /\ files = <<>>
    /\ exitCode = NoValue

OtherIdle == LiveIdle /\ CallIdle /\ FetchIdle /\ DownloadIdle

ColorIdle ==
    /\ lch = NoValue
    /\ rgb = NoValue

ColorInit ==
    /\ lch \in [l : Lightnesses, c : Chromas, h : Hues]
    /\ rgb = NoValue
    /\ TermIdle
    /\ UiIdle
    /\ OtherIdle

\* a call ColorUtils.oklchToRgb(l, c, h): one of the results the engine's
\* Math.cos, Math.sin and Math.pow allow
Convert ==
    /\ rgb = NoValue
    /\ \E v \in oklchToRgb(lch.l, lch.c, lch.h) : rgb' = <<v>>
    /\ UNCHANGED <<lch, termVars, uiVars, otherVars>>

ColorNext == Convert

SpecColor == ColorInit /\ [][ColorNext]_vars



(***************************************************************************)
(* SolarTerminator (spec.md 4.2): the day/night boundary for a timestamp.  *)
(* Angles in radians are fixed-point numbers; longitudes are in units of   *)
(* 1e-4 degree, latitudes in whole degrees.                                *)
(***************************************************************************)
DegUnit == 10^4

\* For 0 <= r < b: the first n decimal digits of r / b
RECURSIVE DivDigits(_, _, _, _)
DivDigits(r, b, n, acc) ==
    IF n = 0 THEN acc
    ELSE DivDigits((r * 10) % b, b, n - 1, acc * 10 + ((r * 10) \div b))

\* The quotient a / b of two fixed-point numbers, b # 0
Div(a, b) ==
    (IF (a < 0) = (b < 0) THEN 1 ELSE -1)
        * ((Abs(a) \div Abs(b)) * Unit + DivDigits(Abs(a) % Abs(b), Abs(b), 7, 0))

\* Math.tan away from the poles of the tangent
Math_tan(x) == Div(Math_sin(x), Math_cos(x))

\* Largest y in lo..hi with cos(y) >= x: the arc cosine on [0, pi]
RECURSIVE AcosSearch(_, _, _)
AcosSearch(x, lo, hi) ==
    IF lo >= hi THEN lo
    ELSE LET mid == (lo + hi + 1) \div 2
         IN  IF Math_cos(mid) >= x
             THEN AcosSearch(x, mid, hi)
             ELSE AcosSearch(x, lo, mid - 1)

Math_acos(x) == AcosSearch(x, 0, Pi)

\* step 2: the solar declination in radians,
\* delta = -23.44 * cos(360/365 * (dayOfYear + 10) * pi/180) degrees
Declination(dayOfYear) ==
    LET n     == dayOfYear + 10
        angle == n * 172142 + ((n * 6320 + 50000) \div 100000)
    IN  Mul(-Mul(234400000, Math_cos(angle)), 174533)

\* step 3: the longitude of the sub-solar point,
\* (hours + minutes/60 - 12) * 15 degrees
SubSolarLongitude(hours, minutes) == (hours * 60 + minutes - 720) * (DegUnit \div 4)

\* A magnitude above 1: what cosH is at the poles, where the tangent of the
\* latitude exceeds every number of the representation (1.6e16 in doubles)
BeyondOne == 2 * Unit

\* step 4: cosH = -tan(phi * pi/180) * tan(delta)
CosHOf(sinPhi, cosPhi, tanDelta) ==
    IF cosPhi = 0
    THEN IF tanDelta = 0 THEN 0
         ELSE -(SignOr1(sinPhi) * SignOr1(tanDelta) * BeyondOne)
    ELSE -Mul(Div(sinPhi, cosPhi), tanDelta)

CosH(phi, dayOfYear) ==
    CosHOf(Math_sin(DegToRad(phi)), Math_cos(DegToRad(phi)), Math_tan(Declination(dayOfYear)))

\* H = acos(cosH) * 180/pi, in units of 1e-4 degree
HourAngle(cosH) == (Mul(Math_acos(cosH), 572957795) + 500) \div 1000

\* the latitude has a sunrise and a sunset on that day
Qualifies(cosH) == Abs(cosH) <= Unit

DaySteps  == 9
TimeSteps == 23

Latitudes == -90..90
Days      == {1 + 36 * i : i \in 0..DaySteps}
Timestamps ==
    {[dayOfYear |-> d, hours |-> (59 * j) \div 60, minutes |-> (59 * j) % 60] :
        d \in Days, j \in 0..TimeSteps}

\* cosH, and H where the latitude qualifies (0 where it does not)
HourAngleOf(cosH) ==
    [cosH |-> cosH, H |-> IF Qualifies(cosH) THEN HourAngle(cosH) ELSE 0]

\* cosH and H of every latitude on every day considered
HourAngleTable == [d \in Days |-> [phi \in Latitudes |-> HourAngleOf(CosH(phi, d))]]

\* the pass for one latitude with the second point forgotten
EmitPair_OnePoint(lambda, e, phi) ==
    IF Qualifies(e.cosH) THEN <<[lon |-> lambda + e.H, lat |-> phi]>> ELSE <<>>

\* the two points of a qualifying latitude, none for another
EmitPair(lambda, e, phi) ==
    IF Qualifies(e.cosH)
    THEN <<[lon |-> lambda + e.H, lat |-> phi], [lon |-> lambda - e.H, lat |-> phi]>>
    ELSE <<>>

\* step 4, the pass for one latitude
PointsAt(t, phi) ==
    EmitPair(SubSolarLongitude(t.hours, t.minutes), HourAngleTable[t.dayOfYear][phi], phi)

\* step 4: the points emitted by the passes for the latitudes lo..hi, in
\* the order of the loop
RECURSIVE Emitted(_, _, _)
Emitted(t, lo, hi) ==
    IF lo > hi THEN <<>>
    ELSE IF lo = hi THEN PointsAt(t, lo)
    ELSE LET mid == (lo + hi) \div 2
         IN  Emitted(t, lo, mid) \o Emitted(t, mid + 1, hi)

\* the comparator the wrong way round: latitude descending
CompareByLat_Descending(p, q) == q.lat - p.lat

\* the comparator of the sort: negative when p comes before q
CompareByLat(p, q) == p.lat - q.lat

\* The stable merge of two sorted runs: an element of b goes after the
\* elements of a that do not come after it.
Merge(a, b) ==
    IF a = <<>> THEN b
    ELSE IF b = <<>> THEN a
    ELSE IF CompareByLat(a[Len(a)], b[1]) <= 0 THEN a \o b
    ELSE LET posA == [i \in 1..Len(a) |->
                        i + Cardinality({j \in 1..Len(b) : CompareByLat(b[j], a[i]) < 0})]
             posB == [j \in 1..Len(b) |->
                        j + Cardinality({i \in 1..Len(a) : CompareByLat(a[i], b[j]) <= 0})]
         IN  [k \in 1..(Len(a) + Len(b)) |->
                IF \E i \in 1..Len(a) : posA[i] = k
                THEN a[CHOOSE i \in 1..Len(a) : posA[i] = k]
                ELSE b[CHOOSE j \in 1..Len(b) : posB[j] = k]]

\* step 5: the stable sort of points[lo..hi] by latitude ascending
RECURSIVE SortByLat(_, _, _)
SortByLat(points, lo, hi) ==
    IF lo > hi THEN <<>>
    ELSE IF lo = hi THEN <<points[lo]>>
    ELSE LET mid == (lo + hi) \div 2
         IN  Merge(SortByLat(points, lo, mid), SortByLat(points, mid + 1, hi))

SolarTerminator(t) ==
    LET points == Emitted(t, -90, 90)
    IN  SortByLat(points, 1, Len(points))

TermInit ==
    /\ ts \in Timestamps
    /\ terminator = NoValue
    /\ ColorIdle
    /\ UiIdle
    /\ OtherIdle

\* a call SolarTerminator(timestamp)
ComputeTerminator ==
    /\ terminator = NoValue
    /\ terminator' = <<SolarTerminator(ts)>>
    /\ UNCHANGED <<ts, colorVars, uiVars, otherVars>>

TermNext == ComputeTerminator

SpecTerm == TermInit /\ [][TermNext]_vars

(***************************************************************************)
(* Offsets and the data-offset attribute.  An offset is a number of hours, *)
(* held in hundredths (5.75 is 575); the attribute holds the string        *)
(* JavaScript makes of the number, a sequence of characters.               *)
(***************************************************************************)
Digits == <<"0", "1", "2", "3", "4", "5", "6", "7", "8", "9">>

RECURSIVE NatToString(_)
NatToString(n) ==
    IF n < 10 THEN <<Digits[n + 1]>>
    ELSE NatToString(n \div 10) \o <<Digits[(n % 10) + 1]>>

\* Number.prototype.toString, as attr('data-offset', d.offset) and the
\* string concatenation of a selector apply it: "-3.5", "0", "5.75"
NumberToString(o) ==
    LET whole == Abs(o) \div 100
        frac  == Abs(o) % 100
    IN  (IF o < 0 THEN <<"-">> ELSE <<>>)
        \o NatToString(whole)
        \o (IF frac = 0 THEN <<>>
            ELSE IF frac % 10 = 0 THEN <<".", Digits[(frac \div 10) + 1]>>
            ELSE <<".", Digits[(frac \div 10) + 1], Digits[(frac % 10) + 1]>>)

DigitValue(ch) == CHOOSE d \in 0..9 : Digits[d + 1] = ch

RECURSIVE DigitsValue(_)
DigitsValue(s) ==
    IF s = <<>> THEN 0
    ELSE 10 * DigitsValue(SubSeq(s, 1, Len(s) - 1)) + DigitValue(s[Len(s)])

\* where the fraction starts: the index of the first "." or Len(s) + 1
PointAt(s) ==
    IF \E k \in 1..Len(s) : s[k] = "."
    THEN CHOOSE k \in 1..Len(s) : s[k] = "." /\ \A j \in 1..(k - 1) : s[j] # "."
    ELSE Len(s) + 1

Maximum(S) == CHOOSE x \in S : \A y \in S : y <= x

\* the index of the first ch in s
PointAtChar(s, ch) ==
    CHOOSE k \in 1..Len(s) : s[k] = ch /\ \A j \in 1..(k - 1) : s[j] # ch

\* parseFloat(this.dataset.offset)
parseFloat(s) ==
    LET neg   == s # <<>> /\ s[1] = "-"
        body  == IF neg THEN Tail(s) ELSE s
        dot   == PointAt(body)
        whole == DigitsValue(SubSeq(body, 1, dot - 1))
        fd    == SubSeq(body, dot + 1, Len(body))
        frac  == IF fd = <<>> THEN 0
                 ELSE IF Len(fd) = 1 THEN 10 * DigitValue(fd[1])
                 ELSE 10 * DigitValue(fd[1]) + DigitValue(fd[2])
        v     == 100 * whole + frac
    IN  IF neg THEN -v ELSE v

(***************************************************************************)
(* The timezone groups loadData leaves in this.timezones                   *)
(***************************************************************************)
NumZones == 4

\* offsets a timezones.geojson holds: whole, half and quarter hours
OffsetPool == <<-350, 575, 0, 900, 550, -950, 1275>>

ZoneOffsets == {OffsetPool[i] : i \in 1..NumZones}

\* .sort((a, b) => a.offset - b.offset) of one group per distinct offset
RECURSIVE Ascending(_)
Ascending(S) ==
    IF S = {} THEN <<>>
    ELSE LET m == CHOOSE x \in S : \A y \in S : x <= y
         IN  <<[offset |-> m]>> \o Ascending(S \ {m})

LoadedTimezones == {Ascending(S) : S \in (SUBSET ZoneOffsets) \ {{}}}

(***************************************************************************)
(* DOM elements: [offset, dataOffset, classes]; offset is the datum or the *)
(* tz the element's handlers close over, dataOffset its attribute          *)
(***************************************************************************)
Element(tz, class) ==
    [offset |-> tz.offset, dataOffset |-> NumberToString(tz.offset), classes |-> {class}]

\* selection.classed(name, value) on one element
Classed(el, name, value) ==
    [el EXCEPT !.classes = IF value THEN @ \cup {name} ELSE @ \ {name}]

HasClass(el, name) == name \in el.classes

\* d3.select: the first of the elements a selector matches, given as the
\* set of their indices in document order; 0 for the empty selection
FirstIndex(matching) ==
    IF matching = {} THEN 0
    ELSE CHOOSE i \in matching : \A j \in matching : i <= j

Event(type, offset) == <<[type |-> type, offset |-> offset]>>

(***************************************************************************)
(* The card-based TimeZoneMap (src/app.js 3-511)                           *)
(***************************************************************************)
\* the state when init() has run: render() has drawn a path and a card for
\* every group
CardInit ==
    /\ timezones \in LoadedTimezones
    /\ highlightedTz = Null
    /\ pinnedTimezones = {}
    /\ zones = [i \in 1..Len(timezones) |-> Element(timezones[i], "timezone")]
    /\ labels = <<>>
    /\ cards = [i \in 1..Len(timezones) |-> Element(timezones[i], "timezone-card")]
    /\ panels = <<>>
    /\ lastEvent = NoValue
    /\ ColorIdle
    /\ TermIdle
    /\ OtherIdle

\* updateHighlights, on the map paths: d => d.offset === this.highlightedTz
HighlightZones(zs, hl) ==
    [i \in 1..Len(zs) |-> Classed(zs[i], "highlighted", zs[i].offset = hl)]

\* updateHighlights, on cards, labels or panels:
\* parseFloat(this.dataset.offset) === highlightedOffset
HighlightByDataset(els, hl) ==
    [i \in 1..Len(els) |-> Classed(els[i], "highlighted", parseFloat(els[i].dataOffset) = hl)]

\* mouseover on a map path or on a card
handleTimezoneHover(tz) ==
    /\ highlightedTz' = tz.offset
    /\ zones' = HighlightZones(zones, tz.offset)
    /\ cards' = HighlightByDataset(cards, tz.offset)
    /\ lastEvent' = Event("hover", tz.offset)
    /\ UNCHANGED <<timezones, pinnedTimezones, labels, panels, colorVars, termVars, otherVars>>

\* mouseout of a map path or of a card
handleTimezoneLeave ==
    /\ highlightedTz' = Null
    /\ zones' = HighlightZones(zones, Null)
    /\ cards' = HighlightByDataset(cards, Null)
    /\ lastEvent' = Event("leave", Null)
    /\ UNCHANGED <<timezones, pinnedTimezones, labels, panels, colorVars, termVars, otherVars>>

\* the collapse with the :not(.pinned) of the selector forgotten
CollapseUnpinned_All(cs) ==
    [i \in 1..Len(cs) |-> Classed(cs[i], "expanded", FALSE)]

\* d3.selectAll('#timezone-grid .timezone-card:not(.pinned)').classed('expanded', false)
CollapseUnpinned(cs) ==
    [i \in 1..Len(cs) |->
        IF HasClass(cs[i], "pinned") THEN cs[i] ELSE Classed(cs[i], "expanded", FALSE)]

\* click on a map path or on a card
handleCardClick(tz) ==
    LET sel(el)    == el.dataOffset = NumberToString(tz.offset)
        c          == FirstIndex({i \in 1..Len(cards) : sel(cards[i])})
        isExpanded == HasClass(cards[c], "expanded")
        isPinned   == HasClass(cards[c], "pinned")
    IN  /\ c # 0
        /\ IF isExpanded
           THEN IF ~isPinned
                THEN /\ cards' = [cards EXCEPT ![c] = Classed(@, "pinned", TRUE)]
                     /\ pinnedTimezones' = pinnedTimezones \cup {tz.offset}
                ELSE /\ cards' = [cards EXCEPT
                                    ![c] = Classed(Classed(@, "pinned", FALSE), "expanded", FALSE)]
                     /\ pinnedTimezones' = pinnedTimezones \ {tz.offset}
           ELSE /\ cards' = [CollapseUnpinned(cards) EXCEPT ![c] = Classed(@, "expanded", TRUE)]
                /\ UNCHANGED pinnedTimezones
        /\ lastEvent' = Event("click", tz.offset)
        /\ UNCHANGED <<timezones, highlightedTz, zones, labels, panels, colorVars, termVars, otherVars>>

(***************************************************************************)
(* The panel-based TimeZoneMap.  A panel is an element that also holds the *)
(* classes of its pin button: [offset, dataOffset, classes, pinBtn].       *)
(***************************************************************************)
\* the state when init() of the first panel version has run: render() has
\* drawn a path and a label group for every timezone group, the labels in
\* the order of this.timezones, and #timezone-panels is empty
PanelInit ==
    /\ timezones \in LoadedTimezones
    /\ highlightedTz = Null
    /\ pinnedTimezones = {}
    /\ zones = [i \in 1..Len(timezones) |-> Element(timezones[i], "timezone")]
    /\ labels = [i \in 1..Len(timezones) |-> Element(timezones[i], "timezone-label")]
    /\ cards = <<>>
    /\ panels = <<>>
    /\ lastEvent = NoValue
    /\ ColorIdle
    /\ TermIdle
    /\ OtherIdle

\* the panel put in the place of the container's content: container.html('')
\* before the append
createTimezonePanel_Replacing(tz) ==
    <<[offset     |-> tz.offset,
       dataOffset |-> NumberToString(tz.offset),
       classes    |-> {"timezone-panel"},
       pinBtn     |-> {"pin-btn"}]>>

\* container.append('div').attr('class', 'timezone-panel')
\*     .attr('data-offset', tz.offset), with its button.pin-btn
createTimezonePanel(tz) ==
    Append(panels, [offset     |-> tz.offset,
                    dataOffset |-> NumberToString(tz.offset),
                    classes    |-> {"timezone-panel"},
                    pinBtn     |-> {"pin-btn"}])

(***************************************************************************)
(* First panel version (src/app.js 813-1205)                               *)
(***************************************************************************)
\* handleTimezoneHover / the panel's mouseover, with updateHighlights
\* (1067-1078): the map paths and the panels
SetHighlight_v2(offset, type) ==
    /\ highlightedTz' = offset
    /\ zones' = HighlightZones(zones, offset)
    /\ panels' = HighlightByDataset(panels, offset)
    /\ lastEvent' = Event(type, offset)
    /\ UNCHANGED <<timezones, pinnedTimezones, labels, cards, colorVars, termVars, otherVars>>

\* mouseover on a map path
handleTimezoneHover_v2(tz) == SetHighlight_v2(tz.offset, "hover")

\* mouseout of a map path
handleTimezoneLeave_v2 == SetHighlight_v2(Null, "leave")

\* click on a map path: d3.select(`[data-offset="${tz.offset}"]`) searches
\* the whole document, the map paths and the label groups included
handleTimezoneClick_v2(tz) ==
    LET sel(el)       == el.dataOffset = NumberToString(tz.offset)
        document      == zones \o labels \o panels
        existingPanel == FirstIndex({i \in 1..Len(document) : sel(document[i])})
    IN  /\ panels' = IF existingPanel # 0 THEN panels ELSE createTimezonePanel(tz)
        /\ lastEvent' = Event("click", tz.offset)
        /\ UNCHANGED <<timezones, highlightedTz, pinnedTimezones, zones, labels, cards,
                       colorVars, termVars, otherVars>>

\* the handlers of a panel and of its buttons are registered by
\* createTimezonePanel only, so events on panels arise from panels
PanelANext ==
    \/ \E i \in 1..Len(timezones) : handleTimezoneHover_v2(timezones[i])
    \/ handleTimezoneLeave_v2
    \/ \E i \in 1..Len(timezones) : handleTimezoneClick_v2(timezones[i])

SpecPanelA == PanelInit /\ [][PanelANext]_vars

(***************************************************************************)
(* Second panel version (src/app.js 1214-1763)                             *)
(***************************************************************************)
\* handleTimezoneHover / the panel's mouseover, with updateHighlights
\* (1613-1630): the map paths, the label groups and the panels
SetHighlight_v3(offset, type) ==
    /\ highlightedTz' = offset
    /\ zones' = HighlightZones(zones, offset)
    /\ labels' = HighlightByDataset(labels, offset)
    /\ panels' = HighlightByDataset(panels, offset)
    /\ lastEvent' = Event(type, offset)
    /\ UNCHANGED <<timezones, pinnedTimezones, cards, colorVars, termVars, otherVars>>

\* mouseover on a map path or on a label group
handleTimezoneHover_v3(tz) == SetHighlight_v3(tz.offset, "hover")

\* mouseout of a map path or of a label group
handleTimezoneLeave_v3 == SetHighlight_v3(Null, "leave")

\* mouseover on the k-th panel
PanelMouseover(k) == SetHighlight_v3(panels[k].offset, "panelHover")

\* mouseout of a panel
PanelMouseout == panels # <<>> /\ SetHighlight_v3(Null, "panelLeave")

\* click on a map path or on a label group
handleTimezoneClick_v3(tz) ==
    LET sel(el)       == /\ HasClass(el, "timezone-panel")
                         /\ el.dataOffset = NumberToString(tz.offset)
        existingPanel == FirstIndex({k \in 1..Len(panels) : sel(panels[k])})
    IN  /\ panels' = IF existingPanel # 0 THEN panels ELSE createTimezonePanel(tz)
        /\ lastEvent' = Event("click", tz.offset)
        /\ UNCHANGED <<timezones, highlightedTz, pinnedTimezones, zones, labels, cards,
                       colorVars, termVars, otherVars>>

\* togglePin with this.pinnedTimezones.delete(offset) forgotten
togglePin_KeepsOffset(k) ==
    LET offset == panels[k].offset
    IN  /\ IF offset \in pinnedTimezones
           THEN /\ UNCHANGED pinnedTimezones
                /\ panels' = [panels EXCEPT ![k].pinBtn = @ \ {"pinned"}]
           ELSE /\ pinnedTimezones' = pinnedTimezones \cup {offset}
                /\ panels' = [panels EXCEPT ![k].pinBtn = @ \cup {"pinned"}]
        /\ lastEvent' = Event("togglePin", offset)
        /\ UNCHANGED <<timezones, highlightedTz, zones, labels, cards, colorVars, termVars, otherVars>>

\* click on the pin button of the k-th panel: togglePin(tz.offset, pinBtn, panel)
togglePin(k) ==
    LET offset == panels[k].offset
    IN  /\ IF offset \in pinnedTimezones
           THEN /\ pinnedTimezones' = pinnedTimezones \ {offset}
                /\ panels' = [panels EXCEPT ![k].pinBtn = @ \ {"pinned"}]
           ELSE /\ pinnedTimezones' = pinnedTimezones \cup {offset}
                /\ panels' = [panels EXCEPT ![k].pinBtn = @ \cup {"pinned"}]
        /\ lastEvent' = Event("togglePin", offset)
        /\ UNCHANGED <<timezones, highlightedTz, zones, labels, cards, colorVars, termVars, otherVars>>

\* closePanel with this.pinnedTimezones.delete(offset) forgotten
closePanel_KeepsOffset(k) ==
    LET offset == panels[k].offset
    IN  /\ UNCHANGED pinnedTimezones
        /\ panels' = SubSeq(panels, 1, k - 1) \o SubSeq(panels, k + 1, Len(panels))
        /\ lastEvent' = Event("closePanel", offset)
        /\ UNCHANGED <<timezones, highlightedTz, zones, labels, cards, colorVars, termVars, otherVars>>

\* click on the close button of the k-th panel: closePanel(tz.offset, panel)
closePanel(k) ==
    LET offset == panels[k].offset
    IN  /\ pinnedTimezones' = pinnedTimezones \ {offset}
        /\ panels' = SubSeq(panels, 1, k - 1) \o SubSeq(panels, k + 1, Len(panels))
        /\ lastEvent' = Event("closePanel", offset)
        /\ UNCHANGED <<timezones, highlightedTz, zones, labels, cards, colorVars, termVars, otherVars>>

(***************************************************************************)
(* The clock.  now is the number of seconds since midnight UTC.  The time  *)
(* zone of the browser is [before, after, at]: getTimezoneOffset() gives   *)
(* `before` minutes for an instant earlier than `at` (in seconds since the *)
(* same midnight) and `after` minutes from then on.                        *)
(*                                                                         *)
(* getCurrentTimeShort, getCurrentTimeFull and getHourInTimezone each read *)
(* the clock with their own new Date() (src/app.js 407, 414, 561), so the  *)
(* reads of one pass of a handler need not see one instant: the clock may  *)
(* step between any two of them.  The reads of a pass are numbered in the  *)
(* order of the code; a schedule gives, for each observed instant the      *)
(* clock can reach in the pass, the number of the read after which it does.*)
(***************************************************************************)
\* the seconds one pass of a handler can take
PassSeconds == 1

\* the k-th of the observed instants after t, or the last one there is; t
\* itself for k = 0 and when there is none
Later(t, k) ==
    IF k = 0 \/ {u \in Instants : u > t} = {} THEN t
    ELSE CHOOSE u \in Instants :
            /\ u > t
            /\ Cardinality({v \in Instants : t < v /\ v < u})
                  = Min(k, Cardinality({v \in Instants : v > t})) - 1

\* the observed instants that lie within the seconds of a pass begun now
InstantsAhead == {u \in Instants : now < u /\ u <= now + PassSeconds}

\* the schedules of a pass of `reads` reads: the clock reaches the k-th of
\* the instants ahead after read number schedule[k]; reads + 1 stands for an
\* instant the pass does not reach
Schedules(reads) == [1..Cardinality(InstantsAhead) -> 1..(reads + 1)]

\* the value of the r-th new Date() of the pass
ReadAt(schedule, r) ==
    Later(now, Cardinality({k \in DOMAIN schedule : schedule[k] < r}))

\* the clock when the pass returns
PassEnd(schedule, reads) ==
    Later(now, Cardinality({k \in DOMAIN schedule : schedule[k] <= reads}))

\* Date.prototype.getTimezoneOffset of the Date for the instant t
getTimezoneOffset(t) == IF t < localZone.at THEN localZone.before ELSE localZone.after

\* the local time of day of the Date for the instant t, in seconds
LocalTimeOf(t) == (t - 60 * getTimezoneOffset(t)) % (24 * 3600)

\* const now = new Date(), which is the instant date;
\* const utc = now.getTime() + (now.getTimezoneOffset() * 60000);
\* new Date(utc + 3600000 * offset): the seconds since local midnight it reads
LocalSeconds(date, offset) ==
    LocalTimeOf(date + 60 * getTimezoneOffset(date) + offset * 36)

\* ColorUtils.getHourInTimezone: tzTime.getHours(), date being its new Date()
getHourInTimezone(date, offset) == LocalSeconds(date, offset) \div 3600

\* padStart(2, '0') / the '2-digit' fields of toLocaleTimeString
Pad2(n) == IF n < 10 THEN <<"0">> \o NatToString(n) ELSE NatToString(n)

\* the hour of the 12-hour clock and its day period
Hour12(s) == IF (s \div 3600) % 12 = 0 THEN 12 ELSE (s \div 3600) % 12
DayPeriod(s) == <<" ", IF s < 12 * 3600 THEN "A" ELSE "P", "M">>

\* toLocaleTimeString('en-US', {hour: 'numeric', minute: '2-digit', hour12: true})
TimeShort(s) == NatToString(Hour12(s)) \o <<":">> \o Pad2((s \div 60) % 60) \o DayPeriod(s)

\* the same with second: '2-digit'
TimeFull(s) ==
    NatToString(Hour12(s)) \o <<":">> \o Pad2((s \div 60) % 60) \o <<":">> \o Pad2(s % 60)
        \o DayPeriod(s)

\* date is the value of the method's own new Date()
getCurrentTimeShort(date, offset) == TimeShort(LocalSeconds(date, offset))
getCurrentTimeFull(date, offset) == TimeFull(LocalSeconds(date, offset))

\* String.prototype.replace(ch, with): the first occurrence only
ReplaceFirst(s, ch, with) ==
    IF \E k \in 1..Len(s) : s[k] = ch
    THEN SubSeq(s, 1, PointAtChar(s, ch) - 1) \o with \o SubSeq(s, PointAtChar(s, ch) + 1, Len(s))
    ELSE s

\* prefix + tz.offset.toString().replace('.', '_').replace('-', 'neg')
ElementId(prefix, offset) ==
    <<prefix>> \o ReplaceFirst(ReplaceFirst(NumberToString(offset), ".", <<"_">>),
                               "-", <<"n", "e", "g">>)

(***************************************************************************)
(* ColorSchemes.timeBlocks4Hour (src/app.js 663-721).  A colour is the     *)
(* triple [l, c, h] that the generator hands to ColorUtils.oklchToRgb,     *)
(* l and c in fixed point, h in ten-thousandths of a degree.                *)
(***************************************************************************)
BlockNames == <<"midnight", "earlyMorning", "morning", "afternoon", "evening", "night">>

\* the if-chain on the hour: 0-3, 4-7, 8-11, 12-15, 16-19, 20-23
TimeBlock(hour) ==
    IF hour >= 0 /\ hour < 4 THEN "midnight"
    ELSE IF hour >= 4 /\ hour < 8 THEN "earlyMorning"
    ELSE IF hour >= 8 /\ hour < 12 THEN "morning"
    ELSE IF hour >= 12 /\ hour < 16 THEN "afternoon"
    ELSE IF hour >= 16 /\ hour < 20 THEN "evening"
    ELSE "night"

blockColors ==
    [midnight     |-> [baseH |-> 240, baseC |-> 2000000, baseL |-> 3000000],
     earlyMorning |-> [baseH |-> 330, baseC |-> 1600000, baseL |-> 6000000],
     morning      |-> [baseH |-> 210, baseC |-> 1800000, baseL |-> 7200000],
     afternoon    |-> [baseH |-> 90,  baseC |-> 2000000, baseL |-> 8500000],
     evening      |-> [baseH |-> 25,  baseC |-> 1600000, baseL |-> 6800000],
     night        |-> [baseH |-> 150, baseC |-> 2000000, baseL |-> 5200000]]

\* t = tzList.length > 1 ? i / (tzList.length - 1) : 0.5
Position(i, n) == IF n > 1 THEN Div(i, n - 1) ELSE Unit \div 2

\* a degree of hue, in fixed point
HueUnit == Unit \div 1000

\* the colour of the zone at position t of a block
BlockColor(params, t) ==
    [l |-> params.baseL - 1200000 + Mul(t, 2400000),
     c |-> params.baseC,
     h |-> params.baseH * HueUnit + Mul(t - (Unit \div 2), 25 * HueUnit)]

\* timezones.forEach(tz => ... getHourInTimezone(tz.offset) ...): the hour
\* read for each group, the read for the j-th group being number done + j
\* of the pass; the span from the lo-th to the hi-th group is put together
\* by halves, a later group of an offset replacing an earlier one
RECURSIVE HoursOfSpan(_, _, _, _, _)
HoursOfSpan(tzs, schedule, done, lo, hi) ==
    IF lo > hi THEN <<>>
    ELSE IF lo = hi
    THEN tzs[lo].offset :> getHourInTimezone(ReadAt(schedule, done + lo), tzs[lo].offset)
    ELSE HoursOfSpan(tzs, schedule, done, (lo + hi) \div 2 + 1, hi)
            @@ HoursOfSpan(tzs, schedule, done, lo, (lo + hi) \div 2)

HoursRead(tzs, schedule, done) == HoursOfSpan(tzs, schedule, done, 1, Len(tzs))

\* the offsets of the block's list, hours being the hours read, and the
\* index of an offset in the list sorted by offset
BlockOffsets(tzs, hours, block) ==
    {tzs[j].offset : j \in {k \in 1..Len(tzs) : TimeBlock(hours[tzs[k].offset]) = block}}

IndexIn(offsets, o) == Cardinality({p \in offsets : p < o})

BlockColorOf(offsets, block, o) ==
    BlockColor(blockColors[block], Position(IndexIn(offsets, o), Cardinality(offsets)))

\* generator(timezones): the colorMap of the returned (offset) => colorMap.get(offset)
timeBlocks4Hour(tzs, hours) ==
    [o \in {tzs[j].offset : j \in 1..Len(tzs)} |->
        BlockColorOf(BlockOffsets(tzs, hours, TimeBlock(hours[o])), TimeBlock(hours[o]), o)]

\* colorMap.get(offset): <<colour>>, or NoValue for undefined
MapGet(colorMap, offset) ==
    IF offset \in DOMAIN colorMap THEN <<colorMap[offset]>> ELSE NoValue

(***************************************************************************)
(* The generators of the ColorSchemes of src/app.js 1829-2163.  A          *)
(* generator is modelled by the colorMap behind the function it returns.   *)
(***************************************************************************)
\* [...timezones].sort((a, b) => a.offset - b.offset), as the offsets in order
SortedOffsets(tzs) == Ascending({tzs[j].offset : j \in 1..Len(tzs)})

\* rainbow: the position of the offset in the domain [min, max] which the
\* sequential scale hands to d3.interpolateRainbow, and the opacity set
rainbow(tzs) ==
    [o \in {tzs[j].offset : j \in 1..Len(tzs)} |->
        [t |-> IF SortedOffsets(tzs)[1].offset = SortedOffsets(tzs)[Len(tzs)].offset
               THEN Unit \div 2
               ELSE Div(o - SortedOffsets(tzs)[1].offset,
                        SortedOffsets(tzs)[Len(tzs)].offset - SortedOffsets(tzs)[1].offset),
         opacity |-> 3000000]]

\* hueStepsLightnessWave: the colour of the i-th (from 0) of n sorted zones
WaveColor(i, n) ==
    [l |-> 6800000 + Mul(Math_sin(Mul(Div(i, n), 6 * Pi)), 1500000),
     c |-> 1500000,
     h |-> Mul(Div(i, n), 360 * HueUnit)]

hueStepsLightnessWave(tzs) ==
    [o \in {tzs[j].offset : j \in 1..Len(tzs)} |->
        WaveColor(IndexIn({tzs[j].offset : j \in 1..Len(tzs)}, o), Len(SortedOffsets(tzs)))]

families ==
    <<[name |-> "purple", baseH |-> 280, baseC |-> 1400000, baseL |-> 5800000, count |-> 4],
      [name |-> "pink",   baseH |-> 340, baseC |-> 1500000, baseL |-> 7000000, count |-> 4],
      [name |-> "orange", baseH |-> 30,  baseC |-> 1600000, baseL |-> 6800000, count |-> 4],
      [name |-> "yellow", baseH |-> 80,  baseC |-> 1500000, baseL |-> 8000000, count |-> 4],
      [name |-> "green",  baseH |-> 130, baseC |-> 1400000, baseL |-> 7200000, count |-> 4],
      [name |-> "teal",   baseH |-> 180, baseC |-> 1300000, baseL |-> 6800000, count |-> 4],
      [name |-> "blue",   baseH |-> 220, baseC |-> 1300000, baseL |-> 7000000, count |-> 3]>>

\* the colour of the i-th (from 0) of the zonesInFamily zones of a family
FamilyColor(family, i, zonesInFamily) ==
    [l |-> family.baseL - 1500000 + Mul(Position(i, zonesInFamily), 3000000),
     c |-> family.baseC,
     h |-> family.baseH * HueUnit + Mul(Position(i, zonesInFamily) - (Unit \div 2), 15 * HueUnit)]

\* families.forEach: the entries the families from the f-th on add to the
\* colorMap, tzIndex being the number of zones already coloured
RECURSIVE FamilyEntries(_, _, _)
FamilyEntries(f, tzIndex, sorted) ==
    IF f > Len(families) THEN {}
    ELSE {<<sorted[tzIndex + i + 1].offset,
            FamilyColor(families[f], i, Min(families[f].count, Len(sorted) - tzIndex))>> :
                i \in 0..(Min(families[f].count, Len(sorted) - tzIndex) - 1)}
         \cup FamilyEntries(f + 1, tzIndex + Max(0, Min(families[f].count, Len(sorted) - tzIndex)),
                            sorted)

\* the colorMap as a function of the offsets that have an entry
MapOf(entries) ==
    [o \in {e[1] : e \in entries} |-> (CHOOSE e \in entries : e[1] = o)[2]]

discreteHueFamilies(tzs) == MapOf(FamilyEntries(1, 0, SortedOffsets(tzs)))

\* the offsets of a list of timezone groups
OffsetsOf(tzs) == {tzs[j].offset : j \in 1..Len(tzs)}

\* oklchDistinct: evenly spaced hues at one lightness and chroma
oklchDistinct(tzs) ==
    [o \in OffsetsOf(tzs) |->
        [l |-> 7500000,
         c |-> 1500000,
         h |-> Mul(Div(IndexIn(OffsetsOf(tzs), o), Len(SortedOffsets(tzs))), 360 * HueUnit)]]

\* j * (360 / k) degrees, to the nearest hue unit
HueSteps(j, k) == (2 * j * 360 * HueUnit + k) \div (2 * k)

\* alternatingContrast: the hue of the i-th (from 0) of n sorted zones,
\* before the % 360
AlternatingHue(i, n) ==
    IF i % 2 = 0
    THEN HueSteps(i \div 2, (n + 1) \div 2)
    ELSE 180 * HueUnit + HueSteps((i - 1) \div 2, n \div 2)

AlternatingColor(i, n) ==
    [l |-> 7000000 + (i % 3) * 1000000,
     c |-> 1500000,
     h |-> AlternatingHue(i, n) % (360 * HueUnit)]

alternatingContrast(tzs) ==
    [o \in OffsetsOf(tzs) |->
        AlternatingColor(IndexIn(OffsetsOf(tzs), o), Len(SortedOffsets(tzs)))]

\* ColorUtils.getTimeOfDay
getTimeOfDay(hour) ==
    IF hour >= 6 /\ hour < 12 THEN "morning"
    ELSE IF hour >= 12 /\ hour < 18 THEN "afternoon"
    ELSE IF hour >= 18 /\ hour < 22 THEN "evening"
    ELSE "night"

\* ColorUtils.getTimeOfDay(ColorUtils.getHourInTimezone(tz.offset)), hours
\* being the hours the forEach of the generator reads
TimeOfDayOf(hours, offset) == getTimeOfDay(hours[offset])

timeColors ==
    [morning   |-> [l |-> 8500000, c |-> 1500000, h |-> 80 * HueUnit],
     afternoon |-> [l |-> 7500000, c |-> 1500000, h |-> 220 * HueUnit],
     evening   |-> [l |-> 6500000, c |-> 1500000, h |-> 280 * HueUnit],
     night     |-> [l |-> 4500000, c |-> 1200000, h |-> 260 * HueUnit]]

\* timeOfDay: one colour per time of day
timeOfDay(tzs, hours) == [o \in OffsetsOf(tzs) |-> timeColors[TimeOfDayOf(hours, o)]]

\* groups[timeOfDay] of the four grouped schemes, sorted by offset: the
\* offsets of the group an offset is in, its index there and the group's length
GroupOf(tzs, hours, o) ==
    {p \in OffsetsOf(tzs) : TimeOfDayOf(hours, p) = TimeOfDayOf(hours, o)}

GroupIndexOf(tzs, hours, o) == IndexIn(GroupOf(tzs, hours, o), o)

GroupLength(tzs, hours, o) == Cardinality(GroupOf(tzs, hours, o))

\* tzList.length > 1 ? (i / (tzList.length - 1)) * range - range / 2 : 0
Spread(i, n, range) == IF n > 1 THEN Mul(Div(i, n - 1), range) - range \div 2 ELSE 0

hueRotateParams ==
    [morning   |-> [baseL |-> 8500000, baseC |-> 1500000, baseH |-> 70,  hueRange |-> 40],
     afternoon |-> [baseL |-> 7500000, baseC |-> 1500000, baseH |-> 200, hueRange |-> 60],
     evening   |-> [baseL |-> 6500000, baseC |-> 1500000, baseH |-> 280, hueRange |-> 50],
     night     |-> [baseL |-> 5000000, baseC |-> 1300000, baseH |-> 250, hueRange |-> 40]]

HueRotateColor(params, i, n) ==
    [l |-> params.baseL,
     c |-> params.baseC,
     h |-> params.baseH * HueUnit + Spread(i, n, params.hueRange * HueUnit)]

timeOfDayHueRotate(tzs, hours) ==
    [o \in OffsetsOf(tzs) |->
        HueRotateColor(hueRotateParams[TimeOfDayOf(hours, o)],
                       GroupIndexOf(tzs, hours, o), GroupLength(tzs, hours, o))]

lightnessShiftParams ==
    [morning   |-> [baseL |-> 8500000, lRange |-> 1500000, baseC |-> 1500000, baseH |-> 75],
     afternoon |-> [baseL |-> 7500000, lRange |-> 1500000, baseC |-> 1500000, baseH |-> 210],
     evening   |-> [baseL |-> 6500000, lRange |-> 1200000, baseC |-> 1500000, baseH |-> 285],
     night     |-> [baseL |-> 5000000, lRange |-> 1200000, baseC |-> 1300000, baseH |-> 255]]

LightnessShiftColor(params, i, n) ==
    [l |-> params.baseL + Spread(i, n, params.lRange),
     c |-> params.baseC,
     h |-> params.baseH * HueUnit]

timeOfDayLightnessShift(tzs, hours) ==
    [o \in OffsetsOf(tzs) |->
        LightnessShiftColor(lightnessShiftParams[TimeOfDayOf(hours, o)],
                            GroupIndexOf(tzs, hours, o), GroupLength(tzs, hours, o))]

chromaShiftParams ==
    [morning   |-> [baseL |-> 8500000, baseC |-> 1500000, cRange |-> 800000, baseH |-> 75],
     afternoon |-> [baseL |-> 7500000, baseC |-> 1500000, cRange |-> 800000, baseH |-> 210],
     evening   |-> [baseL |-> 6500000, baseC |-> 1500000, cRange |-> 800000, baseH |-> 285],
     night     |-> [baseL |-> 5000000, baseC |-> 1300000, cRange |-> 600000, baseH |-> 255]]

\* chroma = Math.max(0.05, params.baseC + chromaOffset)
ChromaShiftColor(params, i, n) ==
    [l |-> params.baseL,
     c |-> Max(500000, params.baseC + Spread(i, n, params.cRange)),
     h |-> params.baseH * HueUnit]

timeOfDayChromaShift(tzs, hours) ==
    [o \in OffsetsOf(tzs) |->
        ChromaShiftColor(chromaShiftParams[TimeOfDayOf(hours, o)],
                         GroupIndexOf(tzs, hours, o), GroupLength(tzs, hours, o))]

hueLightnessParams ==
    [morning   |-> [baseL |-> 8500000, lRange |-> 1200000, baseC |-> 1600000, baseH |-> 70,
                    hueRange |-> 35],
     afternoon |-> [baseL |-> 7500000, lRange |-> 1200000, baseC |-> 1600000, baseH |-> 200,
                    hueRange |-> 50],
     evening   |-> [baseL |-> 6500000, lRange |-> 1000000, baseC |-> 1600000, baseH |-> 280,
                    hueRange |-> 45],
     night     |-> [baseL |-> 5000000, lRange |-> 1000000, baseC |-> 1400000, baseH |-> 250,
                    hueRange |-> 35]]

\* t = tzList.length > 1 ? i / (tzList.length - 1) : 0.5, and the offsets
\* (t - 0.5) * range
HueLightnessColor(params, t) ==
    [l |-> params.baseL + Mul(t - (Unit \div 2), params.lRange),
     c |-> params.baseC,
     h |-> params.baseH * HueUnit + Mul(t - (Unit \div 2), params.hueRange * HueUnit)]

timeOfDayHueLightness(tzs, hours) ==
    [o \in OffsetsOf(tzs) |->
        HueLightnessColor(hueLightnessParams[TimeOfDayOf(hours, o)],
                          Position(GroupIndexOf(tzs, hours, o), GroupLength(tzs, hours, o)))]

\* warmCoolDiverge: the colour of an offset, maxOffset being
\* d3.max(timezones, d => Math.abs(d.offset))
WarmCoolColor(offset, maxOffset) ==
    IF offset = 0 THEN [l |-> 7500000, c |-> 500000, h |-> 120 * HueUnit]
    ELSE IF offset > 0
    THEN [l |-> 7500000, c |-> 1500000,
          h |-> 60 * HueUnit - Mul(Div(offset, maxOffset), 20 * HueUnit)]
    ELSE [l |-> 7500000, c |-> 1500000,
          h |-> 220 * HueUnit + Mul(Div(offset, maxOffset), 20 * HueUnit)]

\* the function returned, on the offsets of the list
warmCoolDiverge(tzs) ==
    [o \in OffsetsOf(tzs) |-> WarmCoolColor(o, Maximum({Abs(p) : p \in OffsetsOf(tzs)}))]

palette ==
    <<[l |-> 6500000, c |-> 2000000, h |-> 30 * HueUnit],
      [l |-> 8000000, c |-> 1800000, h |-> 140 * HueUnit],
      [l |-> 7000000, c |-> 2000000, h |-> 260 * HueUnit],
      [l |-> 8500000, c |-> 1800000, h |-> 80 * HueUnit],
      [l |-> 6000000, c |-> 1800000, h |-> 320 * HueUnit],
      [l |-> 7500000, c |-> 1600000, h |-> 180 * HueUnit],
      [l |-> 7000000, c |-> 1800000, h |-> 0],
      [l |-> 7500000, c |-> 1500000, h |-> 110 * HueUnit]>>

\* categoricalBold: palette[i % palette.length]
categoricalBold(tzs) ==
    [o \in OffsetsOf(tzs) |-> palette[(IndexIn(OffsetsOf(tzs), o) % Len(palette)) + 1]]

\* Object.keys(ColorSchemes)
ColorSchemes ==
    {"rainbow", "hueStepsLightnessWave", "discreteHueFamilies", "oklchDistinct",
     "alternatingContrast", "timeOfDay", "timeOfDayHueRotate", "timeOfDayLightnessShift",
     "timeOfDayChromaShift", "timeOfDayHueLightness", "warmCoolDiverge", "categoricalBold"}

\* ColorSchemes[key].generator(timezones), hours being the hours its forEach
\* reads (five of the generators read them)
Generator(key, tzs, hours) ==
    CASE key = "rainbow" -> rainbow(tzs)
      [] key = "hueStepsLightnessWave" -> hueStepsLightnessWave(tzs)
      [] key = "discreteHueFamilies" -> discreteHueFamilies(tzs)
      [] key = "oklchDistinct" -> oklchDistinct(tzs)
      [] key = "alternatingContrast" -> alternatingContrast(tzs)
      [] key = "timeOfDay" -> timeOfDay(tzs, hours)
      [] key = "timeOfDayHueRotate" -> timeOfDayHueRotate(tzs, hours)
      [] key = "timeOfDayLightnessShift" -> timeOfDayLightnessShift(tzs, hours)
      [] key = "timeOfDayChromaShift" -> timeOfDayChromaShift(tzs, hours)
      [] key = "timeOfDayHueLightness" -> timeOfDayHueLightness(tzs, hours)
      [] key = "warmCoolDiverge" -> warmCoolDiverge(tzs)
      [] key = "categoricalBold" -> categoricalBold(tzs)

(***************************************************************************)
(* Claims about ColorUtils.oklchToRgb (checked under SpecColor)            *)
(***************************************************************************)
Black == [r |-> 0, g |-> 0, bl |-> 0]
White == [r |-> 255, g |-> 255, bl |-> 255]

\* C1: for every finite input, also with L outside [0,1], C above 0.4 and H
\* outside [0,360), each of the three channels oklchToRgb yields is an integer
\* in [0,255].
C1_ChannelsInRange ==
    \A i \in 1..Len(rgb) :
        /\ rgb[i].r \in 0..255
        /\ rgb[i].g \in 0..255
        /\ rgb[i].bl \in 0..255

\* C2: for every hue h, oklchToRgb(0, 0, h) is black and oklchToRgb(1, 0, h)
\* is white.
C2_AchromaticEndPoints ==
    \A i \in 1..Len(rgb) :
        IsZero(lch.c) =>
            /\ (IsZero(lch.l) => rgb[i] = Black)
            /\ (lch.l = One => rgb[i] = White)

\* C3: with chroma 0 the result is a grey that does not depend on the hue:
\* its three channels are equal integers, and it is the result for every
\* other hue.
C3_GreyIndependentOfHue ==
    \A i \in 1..Len(rgb) :
        IsZero(lch.c) =>
            /\ rgb[i].r \in 0..255
            /\ rgb[i].r = rgb[i].g
            /\ rgb[i].g = rgb[i].bl
            /\ \A h2 \in Hues : rgb[i] \in oklchToRgb(lch.l, Zero, h2)

(***************************************************************************)
(* Claims about SolarTerminator (checked under SpecTerm)                   *)
(***************************************************************************)
\* C5: every integer latitude from -90 to 90 is visited once: a latitude
\* with |cosH| <= 1 has exactly two points in the output, at the longitudes
\* lambda_sun + H and lambda_sun - H, a latitude with |cosH| > 1 has none,
\* and the output holds twice as many points as there are such latitudes,
\* at most 362.
C5_TwoPointsPerQualifyingLatitude ==
    \A c \in 1..Len(terminator) :
        LET out       == terminator[c]
            lambda    == SubSolarLongitude(ts.hours, ts.minutes)
            row       == HourAngleTable[ts.dayOfYear]
            H         == [phi \in Latitudes |-> row[phi].H]
            qualified == {phi \in Latitudes : Abs(row[phi].cosH) <= Unit}
        IN  /\ \A phi \in Latitudes :
                LET at == {k \in 1..Len(out) : out[k].lat = phi}
                IN  IF phi \in qualified
                    THEN /\ Cardinality(at) = 2
                         /\ {out[k].lon : k \in at} = {lambda + H[phi], lambda - H[phi]}
                    ELSE at = {}
            /\ \A k \in 1..Len(out) : out[k].lat \in Latitudes
            /\ Len(out) = 2 * Cardinality(qualified)
            /\ Len(out) <= 362

\* a day of polar day and night: latitudes between the polar circles and
\* the poles are left out, the others have their two points
C5_Witness ==
    /\ terminator # <<>>
    /\ Len(terminator[1]) > 200
    /\ Len(terminator[1]) < 300
    /\ terminator[1][1].lat > -90

\* C6: the output is ordered by latitude ascending: p.lat <= q.lat for any
\* two consecutive points p, q.
C6_SortedByLatitude ==
    \A c \in 1..Len(terminator) :
        \A k \in 1..(Len(terminator[c]) - 1) :
            terminator[c][k].lat <= terminator[c][k + 1].lat

\* an output that spans both hemispheres, the two points of its first
\* latitude with the eastern one first
C6_Witness ==
    /\ terminator # <<>>
    /\ Len(terminator[1]) >= 4
    /\ terminator[1][1].lat < 0
    /\ terminator[1][Len(terminator[1])].lat > 0
    /\ terminator[1][1].lat = terminator[1][2].lat
    /\ terminator[1][1].lon > terminator[1][2].lon

\* C7 as claimed: every point of the output has its longitude in
\* [-180, 180] and its latitude in [-90, 90].
C7_PointsWithinMapRange ==
    \A c \in 1..Len(terminator) :
        \A k \in 1..Len(terminator[c]) :
            /\ terminator[c][k].lon >= -180 * DegUnit
            /\ terminator[c][k].lon <= 180 * DegUnit
            /\ terminator[c][k].lat >= -90
            /\ terminator[c][k].lat <= 90

(***************************************************************************)
(* Claims about the user interface                                         *)
(***************************************************************************)
IsEvent(type) == lastEvent # NoValue /\ lastEvent[1].type = type

Highlighted(els) == {els[i].offset : i \in {j \in 1..Len(els) : HasClass(els[j], "highlighted")}}

\* C8: after handleTimezoneHover(tz) highlightedTz is tz.offset, after
\* handleTimezoneLeave() it is null, and in every reachable state a map
\* path, a card or a panel carries 'highlighted' iff its offset is
\* highlightedTz, so at most one offset is highlighted.  In the second panel
\* version a panel appended by a click on the hovered zone carries no
\* 'highlighted' although its offset is highlightedTz.
C8_HighlightedIffOffsetIsHighlightedTz ==
    /\ IsEvent("hover") => highlightedTz = lastEvent[1].offset
    /\ IsEvent("leave") => highlightedTz = Null
    /\ \A i \in 1..Len(zones) : HasClass(zones[i], "highlighted") <=> zones[i].offset = highlightedTz
    /\ \A i \in 1..Len(cards) : HasClass(cards[i], "highlighted") <=> cards[i].offset = highlightedTz
    /\ \A k \in 1..Len(panels) :
          HasClass(panels[k], "highlighted") <=> panels[k].offset = highlightedTz
    /\ Cardinality(Highlighted(zones) \cup Highlighted(cards) \cup Highlighted(panels)) <= 1

\* C9: in the first panel version, a click on a rendered timezone that has
\* no open panel leaves a panel of that timezone in #timezone-panels.  The
\* click finds the timezone's own map path and returns.
C9_ClickOpensPanel ==
    [][\A i \in 1..Len(timezones) :
          (/\ lastEvent' = Event("click", timezones[i].offset)
           /\ \A k \in 1..Len(panels) : panels[k].offset # timezones[i].offset)
          => \E k \in 1..Len(panels') : panels'[k].offset = timezones[i].offset]_vars

\* C10: in the card version a pinned card is expanded; a click on another
\* card or zone, a hover or a leave leaves it pinned and expanded and its
\* offset in pinnedTimezones; a click on its own timezone unpins it, collapses
\* it and takes its offset out of pinnedTimezones.  Several cards are pinned
\* at the same time.
C10_PinnedCardStaysUntilItsOwnClick ==
    [][\A i \in 1..Len(cards) :
          /\ HasClass(cards'[i], "pinned") => HasClass(cards'[i], "expanded")
          /\ (/\ HasClass(cards[i], "pinned")
              /\ (IsEvent("click") \/ IsEvent("hover") \/ IsEvent("leave"))') =>
                IF lastEvent' = Event("click", cards[i].offset)
                THEN /\ ~HasClass(cards'[i], "pinned")
                     /\ ~HasClass(cards'[i], "expanded")
                     /\ cards[i].offset \notin pinnedTimezones'
                ELSE /\ HasClass(cards'[i], "pinned")
                     /\ HasClass(cards'[i], "expanded")
                     /\ cards[i].offset \in pinnedTimezones']_vars

\* two cards are pinned and expanded after a click on a third card, which
\* that click has expanded
C10_Witness ==
    \E i, j, k \in 1..Len(cards) :
        /\ i # j /\ i # k /\ j # k
        /\ {"pinned", "expanded"} \subseteq cards[i].classes
        /\ {"pinned", "expanded"} \subseteq cards[j].classes
        /\ {cards[i].offset, cards[j].offset} \subseteq pinnedTimezones
        /\ lastEvent = Event("click", cards[k].offset)
        /\ HasClass(cards[k], "expanded")
        /\ ~HasClass(cards[k], "pinned")

PanelOffsets(ps) == {ps[k].offset : k \in 1..Len(ps)}

PinButtonPinned(p) == "pinned" \in p.pinBtn

\* C11: in the second panel version a panel's pin button carries 'pinned'
\* iff the panel's offset is in pinnedTimezones; a panel is created
\* unpinned, and a click on its pin button turns unpinned into pinned and
\* pinned into unpinned.
C11_PinButtonFollowsPinSet ==
    /\ [](\A k \in 1..Len(panels) :
            PinButtonPinned(panels[k]) <=> panels[k].offset \in pinnedTimezones)
    /\ [][/\ \A k \in 1..Len(panels) :
                lastEvent' = Event("togglePin", panels[k].offset) =>
                    /\ Len(panels') = Len(panels)
                    /\ PinButtonPinned(panels'[k]) <=> ~PinButtonPinned(panels[k])
                    /\ panels[k].offset \in pinnedTimezones'
                          <=> panels[k].offset \notin pinnedTimezones
          /\ Len(panels') > Len(panels) =>
                /\ ~PinButtonPinned(panels'[Len(panels')])
                /\ panels'[Len(panels')].offset \notin pinnedTimezones']_vars

\* a pin click has pinned the second of two panels; the first is unpinned
C11_Witness ==
    /\ Len(panels) = 2
    /\ lastEvent = Event("togglePin", panels[2].offset)
    /\ PinButtonPinned(panels[2])
    /\ ~PinButtonPinned(panels[1])
    /\ pinnedTimezones = {panels[2].offset}

\* C12: in the second panel version a click on a timezone leaves every
\* panel as it was and in its place, leaves pinnedTimezones as it was, and
\* leaves a panel of the clicked timezone open; so the panels of two
\* timezones clicked one after the other are both open.
C12_ClickKeepsOtherPanels ==
    [][\A i \in 1..Len(timezones) :
          lastEvent' = Event("click", timezones[i].offset) =>
              /\ Len(panels') >= Len(panels)
              /\ SubSeq(panels', 1, Len(panels)) = panels
              /\ pinnedTimezones' = pinnedTimezones
              /\ timezones[i].offset \in PanelOffsets(panels')]_vars

\* the click on a second timezone has opened a second panel beside the
\* pinned panel of the first
C12_Witness ==
    /\ Len(panels) = 2
    /\ panels[1].offset # panels[2].offset
    /\ lastEvent = Event("click", panels[2].offset)
    /\ pinnedTimezones = {panels[1].offset}
    /\ PinButtonPinned(panels[1])

\* C13: a click on a panel's close button removes that panel, pinned or
\* not, leaves the other panels, and takes the offset out of
\* pinnedTimezones; pinnedTimezones holds only offsets of open panels.
C13_CloseRemovesPanelAndPin ==
    /\ [](pinnedTimezones \subseteq PanelOffsets(panels))
    /\ [][\A k \in 1..Len(panels) :
            lastEvent' = Event("closePanel", panels[k].offset) =>
                /\ panels' = SubSeq(panels, 1, k - 1) \o SubSeq(panels, k + 1, Len(panels))
                /\ panels[k].offset \notin PanelOffsets(panels')
                /\ pinnedTimezones' = pinnedTimezones \ {panels[k].offset}]_vars

\* a panel has been closed while another, pinned, stays open
C13_Witness ==
    /\ lastEvent # NoValue
    /\ lastEvent[1].type = "closePanel"
    /\ lastEvent[1].offset \notin PanelOffsets(panels)
    /\ Len(panels) = 1
    /\ pinnedTimezones = {panels[1].offset}

(***************************************************************************)
(* init() and the one-second clock of the card-based TimeZoneMap           *)
(* (src/app.js 21-26, 77-128, 145-151, 434-463)                            *)
(***************************************************************************)
\* UTC, and America/New_York on the days its clocks change (2024-03-10 at
\* 07:00 UTC, 2024-11-03 at 06:00 UTC)
LocalZones ==
    {[before |-> 0, after |-> 0, at |-> 0],
     [before |-> 300, after |-> 240, at |-> 7 * 3600],
     [before |-> 240, after |-> 300, at |-> 6 * 3600]}

\* init() is at the statement named: the ones before it have completed
AtStatement(name) ==
    /\ Len(pc) < Len(InitOrder)
    /\ pc = SubSeq(InitOrder, 1, Len(pc))
    /\ InitOrder[Len(pc) + 1] = name

\* the event loop is free: init() is suspended in loadData's awaits, or over
Yields ==
    \/ AtStatement("loadData")
    \/ ~(Len(pc) < Len(InitOrder) /\ pc = SubSeq(InitOrder, 1, Len(pc)))

LiveInit ==
    /\ UiIdle
    /\ FetchIdle
    /\ DownloadIdle
    /\ ColorIdle
    /\ TermIdle
    /\ CallIdle
    /\ pc = <<>>
    /\ interval = FALSE
    /\ now = FirstInstant
    /\ localZone \in LocalZones
    /\ colorScale = <<>>
    /\ fills = [zone |-> <<>>, card |-> <<>>]
    /\ cardTimes = <<>>
    /\ callouts = <<>>

setupSVG ==
    /\ AtStatement("setupSVG")
    /\ pc' = Append(pc, "setupSVG")
    /\ lastEvent' = Event("setupSVG", Null)
    /\ UNCHANGED <<timezones, highlightedTz, pinnedTimezones, zones, labels, cards, panels,
                   interval, now, localZone, colorScale, fills, cardTimes, callouts,
                   colorVars, termVars, callVars, fetchVars, downloadVars>>

\* both d3.json calls resolve: the groups and the colour scale are set, the
\* generator reading the hour once for every group
loadData ==
    /\ AtStatement("loadData")
    /\ timezones' \in LoadedTimezones
    /\ \E schedule \in Schedules(Len(timezones')) :
          /\ colorScale' = timeBlocks4Hour(timezones', HoursRead(timezones', schedule, 0))
          /\ now' = PassEnd(schedule, Len(timezones'))
    /\ pc' = Append(pc, "loadData")
    /\ lastEvent' = Event("loadData", Null)
    /\ UNCHANGED <<highlightedTz, pinnedTimezones, zones, labels, cards, panels,
                   interval, localZone, fills, cardTimes, callouts,
                   colorVars, termVars, callVars, fetchVars, downloadVars>>

\* a d3.json call rejects: the await throws and init() ends there
loadDataRejected ==
    /\ AtStatement("loadData")
    /\ pc' = Append(pc, "rejected")
    /\ lastEvent' = Event("loadData", Null)
    /\ UNCHANGED <<timezones, highlightedTz, pinnedTimezones, zones, labels, cards, panels,
                   interval, now, localZone, colorScale, fills, cardTimes, callouts,
                   colorVars, termVars, callVars, fetchVars, downloadVars>>

\* the reads of the clock in one render() of n groups, in the order of the
\* code: renderTimezoneCallouts reads the hour of every group for the
\* blocks, then block by block the hour of the zones in find and the time of
\* the label; renderTimezoneGrid reads the compact and the full time of
\* every card
RenderReads(n) == n + Len(BlockNames) * (n + 1) + 2 * n

\* the read of find for the k-th zone of the b-th block, and of its label
FindRead(n, b, k) == n + (b - 1) * (n + 1) + k

LabelRead(n, b) == n + b * (n + 1)

\* the read of the compact (part 1) and of the full (part 2) time of card i
CardRead(n, i, part) == n + Len(BlockNames) * (n + 1) + 2 * (i - 1) + part

\* renderTimezoneGrid: the two time texts of the i-th card, with their ids
CardTime(tz, schedule, done, n, i) ==
    [offset    |-> tz.offset,
     compactId |-> ElementId("time-compact-", tz.offset),
     compact   |-> getCurrentTimeShort(ReadAt(schedule, done + CardRead(n, i, 1)), tz.offset),
     fullId    |-> ElementId("time-full-", tz.offset),
     full      |-> getCurrentTimeFull(ReadAt(schedule, done + CardRead(n, i, 2)), tz.offset)]

\* renderTimezoneCallouts: block.find(tz => hour === startHour) of the block
\* sorted by offset, the hour being read anew for every zone tried; Null
\* when no zone of the block is at its first hour
CalloutOffsets(tzs, hours, schedule, done, b) ==
    {o \in BlockOffsets(tzs, hours, BlockNames[b]) :
        getHourInTimezone(
            ReadAt(schedule,
                   done + FindRead(Len(tzs), b,
                                   IndexIn(BlockOffsets(tzs, hours, BlockNames[b]), o) + 1)),
            o) = 4 * (b - 1)}

CalloutTz(offsets) ==
    IF offsets = {} THEN Null ELSE CHOOSE o \in offsets : \A p \in offsets : o <= p

Callout(o, date) ==
    [offset |-> o, id |-> ElementId("callout-time-", o), text |-> getCurrentTimeShort(date, o)]

\* the zones found for the six blocks
FirstZones(tzs, hours, schedule, done) ==
    {CalloutTz(CalloutOffsets(tzs, hours, schedule, done, b)) : b \in 1..Len(BlockNames)}
        \ {Null}

\* one label per block whose first zone is on the visible map
RECURSIVE Callouts(_, _, _, _, _, _)
Callouts(b, tzs, hours, schedule, done, visible) ==
    IF b > Len(BlockNames) THEN <<>>
    ELSE (IF CalloutTz(CalloutOffsets(tzs, hours, schedule, done, b)) \in visible
          THEN <<Callout(CalloutTz(CalloutOffsets(tzs, hours, schedule, done, b)),
                         ReadAt(schedule, done + LabelRead(Len(tzs), b)))>>
          ELSE <<>>) \o Callouts(b + 1, tzs, hours, schedule, done, visible)

\* render(): the paths, the callout labels and the cards are drawn anew for
\* the groups, coloured by the scale and showing the time each read of the
\* clock gives; `done` reads of the pass precede those of render()
Render(scale, schedule, done) ==
    /\ zones' = [i \in 1..Len(timezones) |-> Element(timezones[i], "timezone")]
    /\ cards' = [i \in 1..Len(timezones) |-> Element(timezones[i], "timezone-card")]
    /\ fills' = [zone |-> [i \in 1..Len(timezones) |-> MapGet(scale, timezones[i].offset)],
                 card |-> [i \in 1..Len(timezones) |-> MapGet(scale, timezones[i].offset)]]
    /\ cardTimes' = [i \in 1..Len(timezones) |->
                        CardTime(timezones[i], schedule, done, Len(timezones), i)]
    /\ \E visible \in SUBSET FirstZones(timezones, HoursRead(timezones, schedule, done),
                                         schedule, done) :
           callouts' = Callouts(1, timezones, HoursRead(timezones, schedule, done),
                                schedule, done, visible)
    /\ now' = PassEnd(schedule, done + RenderReads(Len(timezones)))

\* the render() of init()
render ==
    /\ AtStatement("render")
    /\ \E schedule \in Schedules(RenderReads(Len(timezones))) : Render(colorScale, schedule, 0)
    /\ pc' = Append(pc, "render")
    /\ lastEvent' = Event("render", Null)
    /\ UNCHANGED <<timezones, highlightedTz, pinnedTimezones, labels, panels,
                   interval, localZone, colorScale, colorVars, termVars, callVars, fetchVars, downloadVars>>

\* setColorScheme(schemeFunction), called while the event loop is free, the
\* caller's generator having made the first `done` reads of the pass
setColorScheme(schemeFunction, schedule, done) ==
    /\ Yields
    /\ colorScale' = schemeFunction
    /\ Render(schemeFunction, schedule, done)
    /\ lastEvent' = Event("setColorScheme", Null)
    /\ UNCHANGED <<timezones, highlightedTz, pinnedTimezones, labels, panels,
                   pc, interval, localZone, colorVars, termVars, callVars, fetchVars, downloadVars>>

\* setInterval(() => this.updateAllTimes(), 1000)
startTimeClock ==
    /\ AtStatement("startTimeClock")
    /\ interval' = TRUE
    /\ pc' = Append(pc, "startTimeClock")
    /\ lastEvent' = Event("startTimeClock", Null)
    /\ UNCHANGED <<timezones, highlightedTz, pinnedTimezones, zones, labels, cards, panels,
                   now, localZone, colorScale, fills, cardTimes, callouts,
                   colorVars, termVars, callVars, fetchVars, downloadVars>>

\* the zones whose element id is the one given
ZonesWithId(tzs, prefix, id) ==
    {i \in 1..Len(tzs) : ElementId(prefix, tzs[i].offset) = id}

\* the reads of the clock the forEach of updateAllTimes makes for the j-th
\* group: the compact time (part 1), the full time (part 2) and the callout
\* label (part 3), each only when its element is found
TickRead(j, part) == 3 * (j - 1) + part

\* the text the forEach of updateAllTimes leaves in a card: the last zone
\* whose id finds the element writes it
UpdatedCard(card, tzs, schedule) ==
    [card EXCEPT
        !.compact = IF ZonesWithId(tzs, "time-compact-", card.compactId) = {} THEN @
                    ELSE getCurrentTimeShort(
                        ReadAt(schedule,
                               TickRead(Maximum(ZonesWithId(tzs, "time-compact-", card.compactId)), 1)),
                        tzs[Maximum(ZonesWithId(tzs, "time-compact-", card.compactId))].offset),
        !.full    = IF ZonesWithId(tzs, "time-full-", card.fullId) = {} THEN @
                    ELSE getCurrentTimeFull(
                        ReadAt(schedule,
                               TickRead(Maximum(ZonesWithId(tzs, "time-full-", card.fullId)), 2)),
                        tzs[Maximum(ZonesWithId(tzs, "time-full-", card.fullId))].offset)]

UpdatedCallout(label, tzs, schedule) ==
    [label EXCEPT
        !.text = IF ZonesWithId(tzs, "callout-time-", label.id) = {} THEN @
                 ELSE getCurrentTimeShort(
                     ReadAt(schedule,
                            TickRead(Maximum(ZonesWithId(tzs, "callout-time-", label.id)), 3)),
                     tzs[Maximum(ZonesWithId(tzs, "callout-time-", label.id))].offset)]

\* one tick of the interval: updateAllTimes()
updateAllTimes ==
    /\ interval
    /\ Yields
    /\ \E schedule \in Schedules(3 * Len(timezones)) :
          /\ cardTimes' = [k \in 1..Len(cardTimes) |->
                              UpdatedCard(cardTimes[k], timezones, schedule)]
          /\ callouts' = [k \in 1..Len(callouts) |->
                             UpdatedCallout(callouts[k], timezones, schedule)]
          /\ now' = PassEnd(schedule, 3 * Len(timezones))
    /\ lastEvent' = Event("tick", Null)
    /\ UNCHANGED <<timezones, highlightedTz, pinnedTimezones, zones, labels, cards, panels,
                   pc, interval, localZone, colorScale, fills, colorVars, termVars, callVars, fetchVars, downloadVars>>

\* time passes: between two callbacks and between two statements of init()
Advance ==
    /\ now' \in {t \in Instants : t > now}
    /\ UNCHANGED <<uiVars, pc, interval, localZone, colorScale, fills, cardTimes, callouts,
                   colorVars, termVars, callVars, fetchVars, downloadVars>>

(***************************************************************************)
(* The events of the card version and of the second panel version          *)
(***************************************************************************)
\* the schemes whose functions are handed to setColorScheme in a run
AppliedSchemes == {"timeOfDay"}

CardNext ==
    \/ \E i \in 1..Len(timezones) : handleTimezoneHover(timezones[i])
    \/ handleTimezoneLeave
    \/ \E i \in 1..Len(timezones) : handleCardClick(timezones[i])
    \/ \E key \in AppliedSchemes :
          \E schedule \in Schedules(Len(timezones) + RenderReads(Len(timezones))) :
              setColorScheme(Generator(key, timezones, HoursRead(timezones, schedule, 0)),
                             schedule, Len(timezones))

Spec == CardInit /\ [][CardNext]_vars

\* the scale has a colour for every group (for an offset without one the
\* d3.color(...) of this version's fill is null, and color.opacity = 0.3 throws)
Coloured(scale, tzs) == \A i \in 1..Len(tzs) : MapGet(scale, tzs[i].offset) # NoValue

\* the times render() runs in a run of this version, that of init() included
MaxRenders == 2

\* setColorScheme of the second panel version (1759-1762), as applyScheme
\* calls it, with a scale that colours every group: render() joins the paths
\* again and renderLabels appends a label group for every group to those
\* there, in the order of the projected centroids (sortedTz, 1416), which
\* is the order of the label groups of the first render; the caller's
\* generator has made the `done` reads of the pass
setColorScheme_v3(schemeFunction, schedule, done) ==
    /\ Len(labels) < MaxRenders * Len(timezones)
    /\ Coloured(schemeFunction, timezones)
    /\ colorScale' = schemeFunction
    /\ zones' = [i \in 1..Len(timezones) |-> Element(timezones[i], "timezone")]
    /\ fills' = [zone |-> [i \in 1..Len(timezones) |-> MapGet(schemeFunction, timezones[i].offset)],
                 card |-> <<>>]
    /\ labels' = labels \o [i \in 1..Len(timezones) |->
                                Element([offset |-> labels[i].offset], "timezone-label")]
    /\ now' = PassEnd(schedule, done)
    /\ lastEvent' = Event("setColorScheme", Null)
    /\ UNCHANGED <<timezones, highlightedTz, pinnedTimezones, cards, panels,
                   pc, interval, localZone, cardTimes, callouts,
                   colorVars, termVars, callVars, fetchVars, downloadVars>>

PanelBNext ==
    \/ \E i \in 1..Len(timezones) : handleTimezoneHover_v3(timezones[i])
    \/ handleTimezoneLeave_v3
    \/ \E k \in 1..Len(panels) : PanelMouseover(k)
    \/ PanelMouseout
    \/ \E i \in 1..Len(timezones) : handleTimezoneClick_v3(timezones[i])
    \/ \E k \in 1..Len(panels) : togglePin(k)
    \/ \E k \in 1..Len(panels) : closePanel(k)
    \/ \E key \in AppliedSchemes :
          \E schedule \in Schedules(Len(timezones)) :
              setColorScheme_v3(Generator(key, timezones, HoursRead(timezones, schedule, 0)),
                                schedule, Len(timezones))

\* the timezone groups of a run of this version: at most MaxPanelZones
MaxPanelZones == 2

\* the state when init() of this version has run: render() has drawn a path
\* for every group in the order of this.timezones, and renderLabels a label
\* group for every group in the order of the x of the projected centroids
\* (1416), which the geometries decide: any order of the groups
PanelBInit ==
    /\ timezones \in LoadedTimezones
    /\ Len(timezones) <= MaxPanelZones
    /\ highlightedTz = Null
    /\ pinnedTimezones = {}
    /\ zones = [i \in 1..Len(timezones) |-> Element(timezones[i], "timezone")]
    /\ \E sortedTz \in {order \in [1..Len(timezones) -> 1..Len(timezones)] :
                            \A i, j \in 1..Len(timezones) : order[i] = order[j] => i = j} :
          labels = [i \in 1..Len(timezones) |->
                       Element(timezones[sortedTz[i]], "timezone-label")]
    /\ cards = <<>>
    /\ panels = <<>>
    /\ lastEvent = NoValue
    /\ ColorIdle
    /\ TermIdle
    /\ OtherIdle

SpecPanelB == PanelBInit /\ [][PanelBNext]_vars

LiveNext ==
    \/ setupSVG
    \/ loadData
    \/ loadDataRejected
    \/ render
    \/ startTimeClock
    \/ updateAllTimes
    \/ Advance

SpecLive == LiveInit /\ [][LiveNext]_vars

(***************************************************************************)
(* Claims about init() and the clock                                       *)
(***************************************************************************)
IsPrefix(s, t) == Len(s) <= Len(t) /\ s = SubSeq(t, 1, Len(s))

\* every group has a path and a card carrying its time texts
Rendered ==
    /\ timezones # <<>>
    /\ Len(zones) = Len(timezones)
    /\ Len(cardTimes) = Len(timezones)
    /\ \A i \in 1..Len(timezones) : cardTimes[i].offset = timezones[i].offset

\* the time of day at an offset, in seconds, at the instant t
SecondsAt(t, offset) == (t + 36 * offset) % 86400

\* the observed instants from t to u
InstantsWithin(t, u) == {v \in Instants : t <= v /\ v <= u}

\* the step leaves in every card and in every callout label the time of its
\* own offset at an instant of the step: at a value the clock had between
\* the start of the pass and its return
TextsShowTimeOfPass ==
    /\ \A k \in 1..Len(cardTimes') :
          /\ \E v \in InstantsWithin(now, now') :
                 cardTimes'[k].compact = TimeShort(SecondsAt(v, cardTimes'[k].offset))
          /\ \E v \in InstantsWithin(now, now') :
                 cardTimes'[k].full = TimeFull(SecondsAt(v, cardTimes'[k].offset))
    /\ \A k \in 1..Len(callouts') :
          \E v \in InstantsWithin(now, now') :
              callouts'[k].text = TimeShort(SecondsAt(v, callouts'[k].offset))

\* C14: init() runs setupSVG, loadData, render, startTimeClock in that order
\* (or stops when loadData fails); the interval timer runs only once the
\* groups are loaded and rendered; and every tick leaves in every card and
\* every callout label the time for its own offset, as it is at an instant
\* of the tick.
C14_ClockStartsAfterRenderAndRewritesTimes ==
    /\ [](\/ IsPrefix(pc, <<"setupSVG", "loadData", "render", "startTimeClock">>)
          \/ pc = <<"setupSVG", "rejected">>)
    /\ [](interval => Rendered)
    /\ [][updateAllTimes => (Rendered /\ Rendered' /\ TextsShowTimeOfPass)]_vars

\* the colour is one timeBlocks4Hour gives to a zone of the block named: the
\* block's chroma, a hue within 12.5 degrees of the block's and a lightness
\* within 0.12 of the block's
IsColourOfBlock(colour, block) ==
    /\ colour.c = blockColors[block].baseC
    /\ Abs(colour.h - blockColors[block].baseH * HueUnit) <= 125 * (HueUnit \div 10)
    /\ Abs(colour.l - blockColors[block].baseL) <= 1200000

\* the 4-hour block that holds the local hour of an offset at the instant t
BlockAt(t, offset) == BlockNames[(SecondsAt(t, offset) \div (4 * 3600)) + 1]

\* the scale in use is one of timeBlocks4Hour: it has a colour for every
\* group, and each is a colour the scheme gives to a zone of one of its
\* blocks
TimeBlocksCurrent ==
    /\ timezones # <<>>
    /\ DOMAIN colorScale = {timezones[j].offset : j \in 1..Len(timezones)}
    /\ \A o \in DOMAIN colorScale :
          \E b \in 1..Len(BlockNames) : IsColourOfBlock(colorScale[o], BlockNames[b])

\* C15: while the page is open with the timeBlocks4Hour scheme every zone on
\* the map and every card is coloured with the colour of the 4-hour block
\* that holds the zone's current local hour.
C15_ColourIsOfCurrentBlock ==
    TimeBlocksCurrent =>
        /\ \A i \in 1..Len(fills.zone) :
              /\ fills.zone[i] # NoValue
              /\ IsColourOfBlock(fills.zone[i][1], BlockAt(now, zones[i].offset))
        /\ \A i \in 1..Len(fills.card) :
              /\ fills.card[i] # NoValue
              /\ IsColourOfBlock(fills.card[i][1], BlockAt(now, cards[i].offset))

(***************************************************************************)
(* The swatches of ColorSchemePrototypes.render (src/app.js 2198-2211)     *)
(***************************************************************************)
\* the groups of a timezones.geojson: the whole hours from -12 to +14 and
\* then the half and quarter hours in use
MaxGroups == 30

GroupOffset(k) ==
    IF k <= 27 THEN 100 * (k - 13)
    ELSE <<550, -350, 575, 1275, 650, 450, 350, 950, -950, 1050, 875, 1375>>[((k - 28) % 12) + 1]

GroupsOf(n) == Ascending({GroupOffset(k) : k \in 1..n})

SchemeInit ==
    /\ UiIdle
    /\ FetchIdle
    /\ DownloadIdle
    /\ ColorIdle
    /\ TermIdle
    /\ pc = InitOrder
    /\ interval = FALSE
    /\ now \in Instants
    /\ localZone \in LocalZones
    /\ colorScale = <<>>
    /\ fills = <<>>
    /\ cardTimes = <<>>
    /\ callouts = <<>>
    /\ args \in {<<[key |-> key, timezones |-> GroupsOf(n)]>> :
                    key \in ColorSchemes, n \in 1..MaxGroups}
    /\ ret = NoValue

\* sorted.forEach(tz => colorFunction(tz.offset)): the colours of the swatches
Swatches(colorFunction, tzs) ==
    [j \in 1..Len(tzs) |-> MapGet(colorFunction, tzs[j].offset)]

\* colorFunction = scheme.generator(timezones), then the swatches of
\* ColorSchemePrototypes.render
GenerateScheme ==
    /\ args # NoValue
    /\ ret = NoValue
    /\ \E schedule \in Schedules(Len(args[1].timezones)) :
          /\ ret' = <<Swatches(Generator(args[1].key, args[1].timezones,
                                         HoursRead(args[1].timezones, schedule, 0)),
                               args[1].timezones)>>
          /\ now' = PassEnd(schedule, Len(args[1].timezones))
    /\ UNCHANGED <<args, colorVars, termVars, uiVars, pc, interval, localZone, colorScale,
                   fills, cardTimes, callouts, fetchVars, downloadVars>>

SchemeNext == GenerateScheme

SpecSchemes == SchemeInit /\ [][SchemeNext]_vars

\* C16: for every scheme and every list of timezone groups, the function the
\* generator returns yields a colour for the offset of every group of the list.
C16_GeneratorColoursEveryOffset ==
    ret # NoValue => \A j \in 1..Len(ret[1]) : ret[1][j] # NoValue

(***************************************************************************)
(* The patterns of fractional offsets (src/app.js 197-215, 317-325)        *)
(***************************************************************************)
\* the JavaScript remainder a % m, which has the sign of a
Rem(a, m) == IF a < 0 THEN -((-a) % m) ELSE a % m

\* renderTimezones: every fractional zone gets the crosshatch
OverlayPattern_AllCrosshatch(offset) ==
    IF Rem(offset, 100) # 0 THEN "crosshatch" ELSE "none"

\* renderTimezones: the fill of the path.timezone-pattern of a zone, "none"
\* when the filter leaves the zone without one
OverlayPattern(offset) ==
    IF Rem(offset, 100) # 0
    THEN IF Abs(Abs(Rem(offset, 100)) - 50) < 1 THEN "diagonal" ELSE "crosshatch"
    ELSE "none"

\* renderTimezoneGrid: the background-image of the card: one gradient at
\* 45deg (diagonal), two crossing gradients (crosshatch) or none
CardPattern(offset) ==
    IF Rem(offset, 100) # 0
    THEN IF Abs(Abs(Rem(offset, 100)) - 50) < 1 THEN "diagonal" ELSE "crosshatch"
    ELSE "none"

\* the offsets from -12 in steps of a quarter of an hour
QuarterSteps == 104

QuarterOffsets == {25 * k - 1200 : k \in 0..QuarterSteps}

PatternInit ==
    /\ UiIdle
    /\ FetchIdle
    /\ DownloadIdle
    /\ ColorIdle
    /\ TermIdle
    /\ LiveIdle
    /\ args \in {<<[offset |-> o]>> : o \in QuarterOffsets}
    /\ ret = NoValue

\* render() draws the overlay and the card of the zone
RenderPatterns ==
    /\ args # NoValue
    /\ ret = NoValue
    /\ ret' = <<[overlay |-> OverlayPattern(args[1].offset),
                 card    |-> CardPattern(args[1].offset)]>>
    /\ UNCHANGED <<args, colorVars, termVars, uiVars, liveVars, fetchVars, downloadVars>>

PatternNext == RenderPatterns

SpecPattern == PatternInit /\ [][PatternNext]_vars

\* C17: a zone gets a pattern iff its offset is not a whole number of hours:
\* diagonal for a half hour, crosshatch for a quarter hour (:15, :45), none
\* for a whole hour; and the card gets the pattern the map overlay gets.
C17_PatternFollowsFraction ==
    ret # NoValue =>
        /\ ret[1].overlay # "none" <=> args[1].offset % 100 # 0
        /\ args[1].offset % 100 = 50 => ret[1].overlay = "diagonal"
        /\ args[1].offset % 100 \in {25, 75} => ret[1].overlay = "crosshatch"
        /\ args[1].offset % 100 = 0 => ret[1].overlay = "none"
        /\ ret[1].card = ret[1].overlay

\* the zone UTC-3:30 drawn with the diagonal pattern on the map and the card
C17_Witness ==
    /\ args = <<[offset |-> -350]>>
    /\ ret = <<[overlay |-> "diagonal", card |-> "diagonal"]>>

(***************************************************************************)
(* formatOffset and getWikipediaUrl (src/app.js 130-143, 420-432)          *)
(***************************************************************************)
\* Number.prototype.toString of an integer
IntToString(n) == IF n < 0 THEN <<"-">> \o NatToString(-n) ELSE NatToString(n)

\* (offset % 1) * 60, a whole number of minutes for a multiple of a quarter
\* of an hour (the fractions 0.25, 0.5 and 0.75 are exact doubles)
RemMinutes(offset) == (Rem(offset, 100) * 60) \div 100

\* str.padStart(2, '0')
PadStart2(s) == IF Len(s) < 2 THEN <<"0">> \o s ELSE s

\* minutes.toString() of formatOffset, for the multiples of a quarter hour
MinutesToString(offset) ==
    CASE Rem(offset, 25) = 0 -> NatToString(Abs(RemMinutes(offset)))

formatOffset(offset) ==
    IF offset = 0 THEN <<"U", "T", "C", "+", "0">>
    ELSE IF Rem(offset, 100) # 0
    THEN <<"U", "T", "C">> \o (IF offset > 0 THEN <<"+">> ELSE <<>>)
            \o IntToString(offset \div 100)
            \o <<":">> \o PadStart2(MinutesToString(offset))
    ELSE <<"U", "T", "C">> \o (IF offset > 0 THEN <<"+">> ELSE <<>>) \o NumberToString(offset)

\* Math.round((absOffset % 1) * 60): 0.6 minutes per hundredth of an hour,
\* never half way between two whole numbers
RoundMinutes(absOffset) == ((absOffset % 100) * 60 + 50) \div 100

\* the sign of a negative offset as the source file holds it: the three
\* characters U+00E2, U+02C6, U+2019 (the bytes of U+2212 read as
\* Windows-1252)
MinusSign == <<"U+00E2", "U+02C6", "U+2019">>

\* the utcString of getWikipediaUrl
utcString(offset) ==
    <<"U", "T", "C">> \o (IF offset >= 0 THEN <<"+">> ELSE MinusSign)
        \o PadStart2(NatToString(Abs(offset) \div 100))
        \o <<":">> \o PadStart2(NatToString(RoundMinutes(Abs(offset))))

\* encodeURIComponent of one character of a utcString: the UTF-8 bytes of a
\* character that is not unreserved, each as %XX
EncodeChar(ch) ==
    IF ch = "+" THEN <<"%", "2", "B">>
    ELSE IF ch = ":" THEN <<"%", "3", "A">>
    ELSE IF ch = "U+00E2" THEN <<"%", "C", "3", "%", "A", "2">>
    ELSE IF ch = "U+02C6" THEN <<"%", "C", "B", "%", "8", "6">>
    ELSE IF ch = "U+2019" THEN <<"%", "E", "2", "%", "8", "0", "%", "9", "9">>
    ELSE <<ch>>

RECURSIVE encodeURIComponent(_)
encodeURIComponent(s) ==
    IF s = <<>> THEN <<>> ELSE EncodeChar(Head(s)) \o encodeURIComponent(Tail(s))

getWikipediaUrl(offset) ==
    <<"https://en.wikipedia.org/wiki/">> \o encodeURIComponent(utcString(offset))

FormatInit ==
    /\ UiIdle
    /\ FetchIdle
    /\ DownloadIdle
    /\ ColorIdle
    /\ TermIdle
    /\ LiveIdle
    /\ args \in {<<[offset |-> o]>> : o \in QuarterOffsets}
    /\ ret = NoValue

\* the offset label and the Wikipedia link of an offset
FormatOffset ==
    /\ args # NoValue
    /\ ret = NoValue
    /\ ret' = <<[offsetString |-> formatOffset(args[1].offset),
                 utcString    |-> utcString(args[1].offset),
                 url          |-> getWikipediaUrl(args[1].offset)]>>
    /\ UNCHANGED <<args, colorVars, termVars, uiVars, liveVars, fetchVars, downloadVars>>

FormatNext == FormatOffset

SpecFormat == FormatInit /\ [][FormatNext]_vars

\* the label of the claim: 'UTC', the sign, the whole hours of the magnitude
\* and, for a non-whole offset, ':' and the minutes of the magnitude
MagnitudeLabel(offset) ==
    <<"U", "T", "C">> \o <<IF offset < 0 THEN "-" ELSE "+">>
        \o NatToString(Abs(offset) \div 100)
        \o (IF Abs(offset) % 100 = 0 THEN <<>>
            ELSE <<":">> \o Pad2(((Abs(offset) % 100) * 60) \div 100))

\* the hours and the minutes a utcString of getWikipediaUrl ends with
UrlHours(s) == DigitsValue(SubSeq(s, Len(s) - 4, Len(s) - 3))
UrlMinutes(s) == DigitsValue(SubSeq(s, Len(s) - 1, Len(s)))

\* C19: formatOffset renders a quarter-hour offset as 'UTC', sign, the whole
\* hours of its magnitude and ':' minutes when it is not whole, and these
\* hours and minutes are the ones getWikipediaUrl shows for the offset.
C19_FormatOffsetShowsMagnitude ==
    ret # NoValue =>
        /\ ret[1].offsetString = MagnitudeLabel(args[1].offset)
        /\ UrlHours(ret[1].utcString) = Abs(args[1].offset) \div 100
        /\ UrlMinutes(ret[1].utcString) = ((Abs(args[1].offset) % 100) * 60) \div 100

(***************************************************************************)
(* The grouping of loadData (src/app.js 84-121).  A feature is             *)
(* [offset, geometry, named, cities]: named features carry a name and an   *)
(* offsetString, the others neither; cities is NoValue when the property   *)
(* is absent.                                                              *)
(***************************************************************************)
FeatureName(f) == <<"zone", f.geometry>>

\* the position in grouped of the entry of an offset, 0 when there is none
GroupIndex(grouped, offset) ==
    FirstIndex({i \in 1..Len(grouped) : grouped[i].offset = offset})

\* grouped.set(offset, {...}) of a first feature of its offset
NewGroup(f) ==
    [offset       |-> f.offset,
     offsetString |-> IF f.named THEN <<"label", f.geometry>> ELSE formatOffset(f.offset),
     names        |-> <<>>,
     cities       |-> <<>>,
     geometries   |-> <<>>]

\* group.cities.add(city) with an array in place of the Set
SetAdd_Push(cities, city) == Append(cities, city)

\* group.cities.add(city): a Set keeps the first insertion of a value
SetAdd(cities, city) ==
    IF \E k \in 1..Len(cities) : cities[k] = city THEN cities ELSE Append(cities, city)

RECURSIVE AddCities(_, _)
AddCities(cities, new) ==
    IF new = <<>> THEN cities ELSE AddCities(SetAdd(cities, Head(new)), Tail(new))

\* the three updates of the group of a feature
AddToGroup(group, f) ==
    [group EXCEPT
        !.geometries = Append(@, f.geometry),
        !.names      = IF f.named THEN Append(@, FeatureName(f)) ELSE @,
        !.cities     = IF f.cities # NoValue THEN AddCities(@, f.cities[1]) ELSE @]

\* the body of tzData.features.forEach
AddFeature(grouped, f) ==
    IF GroupIndex(grouped, f.offset) = 0
    THEN Append(grouped, AddToGroup(NewGroup(f), f))
    ELSE [grouped EXCEPT ![GroupIndex(grouped, f.offset)] = AddToGroup(@, f)]

RECURSIVE GroupFeatures(_, _)
GroupFeatures(features, grouped) ==
    IF features = <<>> THEN grouped
    ELSE GroupFeatures(Tail(features), AddFeature(grouped, Head(features)))

\* the timezone object made of a group
TimezoneOf(group) ==
    [offset       |-> group.offset,
     offsetString |-> group.offsetString,
     name         |-> IF group.names # <<>> THEN group.names[1]
                      ELSE <<"U", "T", "C">> \o (IF group.offset >= 0 THEN <<"+">> ELSE <<>>)
                              \o NumberToString(group.offset),
     names        |-> group.names,
     cities       |-> group.cities,
     geometry     |-> [type |-> "GeometryCollection", geometries |-> group.geometries]]

\* .sort((a, b) => a.offset - b.offset) of objects of distinct offsets
RECURSIVE SortByOffset(_)
SortByOffset(S) ==
    IF S = {} THEN <<>>
    ELSE <<CHOOSE x \in S : \A y \in S : x.offset <= y.offset>>
         \o SortByOffset(S \ {CHOOSE x \in S : \A y \in S : x.offset <= y.offset})

GroupedTimezones(features) ==
    SortByOffset({TimezoneOf(GroupFeatures(features, <<>>)[i]) :
                     i \in 1..Len(GroupFeatures(features, <<>>))})

\* the features of a timezones.geojson
MaxFeatures == 3

FeatureOffsets == {550, -350, 0}

\* what a feature carries besides its offset and geometry
FeatureProperties ==
    {[named |-> TRUE,  cities |-> <<<<"Delhi", "Mumbai", "Delhi">>>>],
     [named |-> FALSE, cities |-> <<<<"Mumbai">>>>],
     [named |-> FALSE, cities |-> NoValue]}

FeaturesOf(choice) ==
    [j \in 1..Len(choice) |->
        [offset |-> choice[j].offset, named |-> choice[j].properties.named,
         cities |-> choice[j].properties.cities, geometry |-> j]]

FeatureLists ==
    UNION {{FeaturesOf(choice) :
               choice \in [1..n -> [offset : FeatureOffsets,
                                    properties : FeatureProperties]]} : n \in 0..MaxFeatures}

GroupInit ==
    /\ UiIdle
    /\ FetchIdle
    /\ DownloadIdle
    /\ ColorIdle
    /\ TermIdle
    /\ LiveIdle
    /\ args \in {<<features>> : features \in FeatureLists}
    /\ ret = NoValue

\* loadData from the parsed timezones.geojson to this.timezones
Group ==
    /\ args # NoValue
    /\ ret = NoValue
    /\ ret' = <<GroupedTimezones(args[1])>>
    /\ UNCHANGED <<args, colorVars, termVars, uiVars, liveVars, fetchVars, downloadVars>>

GroupNext == Group

SpecGroup == GroupInit /\ [][GroupNext]_vars

\* the places <<i, k>> where a geometry stands in the entries
PlacesOf(tzs, g) ==
    {p \in UNION {{<<i, k>> : k \in 1..Len(tzs[i].geometry.geometries)} : i \in 1..Len(tzs)} :
        tzs[p[1]].geometry.geometries[p[2]] = g}

RECURSIVE GeometryCount(_)
GeometryCount(tzs) ==
    IF tzs = <<>> THEN 0
    ELSE Len(Head(tzs).geometry.geometries) + GeometryCount(Tail(tzs))

\* C18: this.timezones holds one entry per distinct offset of the features,
\* strictly ascending by offset; the geometry of every feature stands once,
\* in the entry of its offset, so that the geometry counts sum to the number
\* of features; and no city stands twice in the cities of an entry.
C18_OneGroupPerOffset ==
    ret # NoValue =>
        /\ {ret[1][i].offset : i \in 1..Len(ret[1])} = {args[1][j].offset : j \in 1..Len(args[1])}
        /\ \A i \in 1..(Len(ret[1]) - 1) : ret[1][i].offset < ret[1][i + 1].offset
        /\ \A j \in 1..Len(args[1]) :
              /\ Cardinality(PlacesOf(ret[1], args[1][j].geometry)) = 1
              /\ \A p \in PlacesOf(ret[1], args[1][j].geometry) :
                    ret[1][p[1]].offset = args[1][j].offset
        /\ GeometryCount(ret[1]) = Len(args[1])
        /\ \A i \in 1..Len(ret[1]) : \A k, m \in 1..Len(ret[1][i].cities) :
              ret[1][i].cities[k] = ret[1][i].cities[m] => k = m

\* three features of two offsets, two of them in one group whose cities were
\* listed more than once
C18_Witness ==
    /\ ret # NoValue
    /\ Len(args[1]) = 3
    /\ Len(ret[1]) = 2
    /\ args[1][1].offset = 550
    /\ ret[1][1].offset = -350
    /\ ret[1][2].cities = <<"Delhi", "Mumbai">>
    /\ Len(ret[1][2].geometry.geometries) = 2

(***************************************************************************)
(* The fetch script (src/generate-timezones-advanced.js 247-343).  A       *)
(* request is [source, state, hops, socket, failed], one per call of       *)
(* https.get(source.url, ...).  source is the index it was issued for.     *)
(* socket is the connection of that request, which carries its 'error'     *)
(* listener and its 30-second callback: "open" while it can still fail or  *)
(* idle, "destroyed" after request.destroy() before a response, "closed"   *)
(* when it has failed, was destroyed after a response, or its response has *)
(* been read to the end.  The response of a 301/302 and of a status that   *)
(* handleResponse rejects is never read, so its connection stays open.     *)
(* hops is 1 once a 301/302 has been followed with the second https.get,   *)
(* whose request has neither listener nor timeout.  state is that of the   *)
(* response handleResponse is given: "sent" until the first response       *)
(* arrives, "redirected" while the second https.get is out, "streaming"    *)
(* after a 200 reached handleResponse, "aborted" when the connection of a  *)
(* streaming response is gone and its 'error' is due, "rejected" after     *)
(* another status, then "ended" or "closed".  failed is TRUE once a        *)
(* failure handler has run for the request.                                *)
(* outcome lists, in order, the calls that end a run: "written" for the    *)
(* fs.writeFileSync of processData, "fallback" for createFallbackData(),   *)
(* "uncaught" for an 'error' event without a listener, which ends the      *)
(* process.                                                                *)
(***************************************************************************)
\* sources.length
NumSources == 2

\* the status codes a server answers with
StatusCodes == {200, 302, 404}

NewRequest(index) ==
    [source |-> index, state |-> "sent", hops |-> 0, socket |-> "open", failed |-> FALSE]

\* tryNextSource() with currentSourceIndex = index: the requests and the
\* outcome it leaves
tryNextSource(index, reqs, out) ==
    IF index >= NumSources
    THEN [requests |-> reqs, outcome |-> Append(out, "fallback")]
    ELSE [requests |-> Append(reqs, NewRequest(index)), outcome |-> out]

\* currentSourceIndex++; tryNextSource(); in a handler of the request r,
\* which is left in the state and with the socket given
FailOver(r, state, socket) ==
    /\ currentSourceIndex' = currentSourceIndex + 1
    /\ requests' = tryNextSource(currentSourceIndex + 1,
                       [requests EXCEPT ![r] = [@ EXCEPT !.state = state, !.socket = socket,
                                                         !.failed = TRUE]],
                       outcome).requests
    /\ outcome' = tryNextSource(currentSourceIndex + 1, requests, outcome).outcome

\* the process has not been ended by an uncaught exception
Alive == \A k \in 1..Len(outcome) : outcome[k] # "uncaught"

\* what becomes of the response of the request q when the connection of q
\* is reset or destroyed: none arrives any more, and one that is being read
\* from this connection is aborted
AfterLoss(q) ==
    IF q.state = "sent" THEN "closed"
    ELSE IF q.state = "streaming" /\ q.hops = 0 THEN "aborted"
    ELSE q.state

FetchInit ==
    /\ UiIdle
    /\ ColorIdle
    /\ TermIdle
    /\ LiveIdle
    /\ CallIdle
    /\ DownloadIdle
    /\ currentSourceIndex = 0
    /\ requests = <<>>
    /\ outcome = <<>>

\* the call of tryNextSource() that ends the script
StartFetch ==
    /\ requests = <<>>
    /\ currentSourceIndex = 0
    /\ requests' = tryNextSource(currentSourceIndex, requests, outcome).requests
    /\ outcome' = tryNextSource(currentSourceIndex, requests, outcome).outcome
    /\ UNCHANGED <<currentSourceIndex, colorVars, termVars, uiVars, liveVars, callVars, downloadVars>>

\* request.on('error'): the connection fails, before a response or while
\* it is still open after one, or the request was destroyed before a
\* response ('socket hang up')
RequestError(r) ==
    /\ Alive
    /\ requests[r].socket \in {"open", "destroyed"}
    /\ FailOver(r, AfterLoss(requests[r]), "closed")
    /\ UNCHANGED <<colorVars, termVars, uiVars, liveVars, callVars, downloadVars>>

\* handleResponse(response) for the request r
handleResponse(r, statusCode) ==
    IF statusCode # 200
    THEN FailOver(r, "rejected", requests[r].socket)
    ELSE /\ requests' = [requests EXCEPT ![r] = [@ EXCEPT !.state = "streaming"]]
         /\ UNCHANGED <<currentSourceIndex, outcome>>

\* the callback of https.get(source.url, ...)
Response(r, statusCode) ==
    /\ Alive
    /\ requests[r].state = "sent"
    /\ requests[r].socket = "open"
    /\ IF statusCode = 301 \/ statusCode = 302
       THEN /\ requests' = [requests EXCEPT ![r] = [@ EXCEPT !.state = "redirected", !.hops = 1]]
            /\ UNCHANGED <<currentSourceIndex, outcome>>
       ELSE handleResponse(r, statusCode)
    /\ UNCHANGED <<colorVars, termVars, uiVars, liveVars, callVars, downloadVars>>

\* the response to https.get(response.headers.location, handleResponse)
RedirectResponse(r, statusCode) ==
    /\ Alive
    /\ requests[r].state = "redirected"
    /\ handleResponse(r, statusCode)
    /\ UNCHANGED <<colorVars, termVars, uiVars, liveVars, callVars, downloadVars>>

\* the request of https.get(response.headers.location, handleResponse)
\* emits 'error': before its response, while the body arrives, or after a
\* status that handleResponse rejected, whose response is never read.  It
\* has no listener, and the exception ends the process
RedirectError(r) ==
    /\ Alive
    /\ requests[r].hops = 1
    /\ requests[r].state \in {"redirected", "streaming", "rejected"}
    /\ requests' = [requests EXCEPT ![r] = [@ EXCEPT !.state = "closed"]]
    /\ outcome' = Append(outcome, "uncaught")
    /\ UNCHANGED <<currentSourceIndex, colorVars, termVars, uiVars, liveVars, callVars, downloadVars>>

\* response.on('end'): processData writes timezones.geojson, or falls back
\* when the data cannot be processed
StreamEnd(r, parsed) ==
    /\ Alive
    /\ requests[r].state = "streaming"
    /\ requests' = [requests EXCEPT ![r] =
                       [@ EXCEPT !.state = "ended",
                                 !.socket = IF requests[r].hops = 0 THEN "closed" ELSE @]]
    /\ outcome' = Append(outcome, IF parsed THEN "written" ELSE "fallback")
    /\ UNCHANGED <<currentSourceIndex, colorVars, termVars, uiVars, liveVars, callVars, downloadVars>>

\* response.on('error'): the body ends early, or the connection it came on
\* was reset or destroyed ('aborted')
StreamError(r) ==
    /\ Alive
    /\ requests[r].state \in {"streaming", "aborted"}
    /\ FailOver(r, "closed", IF requests[r].hops = 0 THEN "closed" ELSE requests[r].socket)
    /\ UNCHANGED <<colorVars, termVars, uiVars, liveVars, callVars, downloadVars>>

\* request.setTimeout(30000, ...): the socket of the request has been idle
\* for 30 seconds; request.destroy() ends this connection only
Timeout(r) ==
    /\ Alive
    /\ requests[r].socket = "open"
    /\ FailOver(r, AfterLoss(requests[r]),
                IF requests[r].state = "sent" THEN "destroyed" ELSE "closed")
    /\ UNCHANGED <<colorVars, termVars, uiVars, liveVars, callVars, downloadVars>>

FetchNext ==
    \/ StartFetch
    \/ \E r \in 1..Len(requests) :
          \/ RequestError(r)
          \/ \E statusCode \in StatusCodes : Response(r, statusCode)
          \/ \E statusCode \in StatusCodes : RedirectResponse(r, statusCode)
          \/ RedirectError(r)
          \/ \E parsed \in BOOLEAN : StreamEnd(r, parsed)
          \/ StreamError(r)
          \/ Timeout(r)

SpecFetch == FetchInit /\ [][FetchNext]_vars

\* every request that is out eventually produces one of its events: as long
\* as a callback of some request can run, one does
SpecFetchLive == FetchInit /\ [][FetchNext]_vars /\ WF_vars(FetchNext)

\* C20: the k-th request is for the k-th source; a request is issued only
\* when every earlier one has failed; and currentSourceIndex is the number
\* of sources that have failed.
C20_OneStepPerFailedSource ==
    /\ \A k \in 1..Len(requests) : requests[k].source = k - 1
    /\ \A k \in 1..(Len(requests) - 1) : requests[k].failed
    /\ currentSourceIndex = Cardinality({k \in 1..Len(requests) : requests[k].failed})

\* the number of calls in the outcome that end a run with data
TerminalCalls == Cardinality({k \in 1..Len(outcome) : outcome[k] \in {"written", "fallback"}})

\* C21: in a run timezones.geojson is written at most once or
\* createFallbackData is called at most once, and never both.
C21_AtMostOneOutcome == TerminalCalls <= 1

\* C22: every run eventually writes timezones.geojson or calls
\* createFallbackData.
C22_FetchFinishes == <>(TerminalCalls >= 1)

(***************************************************************************)
(* download-real-timezones.js (src/download-real-timezones.js 21-73).      *)
(* request is [state, hops]: state is "sent" until the first response,     *)
(* "redirected" while the https.get of a 301/302 is out, "streaming" after *)
(* a 200 reached processResponse, "refused" after another status did,      *)
(* "ended" after the 'end' handler, "exited" after process.exit(1) and     *)
(* "uncaught" after an 'error' event without a listener; hops counts the   *)
(* redirects followed, statusCode is response.statusCode of the last       *)
(* response (0 before the first).  The response of a 301/302 and of a      *)
(* refused status is never read, so the connection of the first request    *)
(* stays open and the request can still emit 'error'.  A body is a         *)
(* sequence of pieces of text, which arrives in chunks.                    *)
(***************************************************************************)
\* the pieces of text a body is made of
Tokens == {"{", "\"features\":[]", "}"}

\* the longest body, in pieces
MaxBody == 3

Bodies == UNION {[1..n -> Tokens] : n \in 1..MaxBody}

\* where the first chunk of a text ends that is cut after the positions given
FirstCut(text, cuts) ==
    CHOOSE c \in (cuts \cap 1..Len(text)) \cup {Len(text)} :
        \A d \in (cuts \cap 1..Len(text)) \cup {Len(text)} : c <= d

\* the chunks of a text cut after the positions given
RECURSIVE Split(_, _)
Split(text, cuts) ==
    IF text = <<>> THEN <<>>
    ELSE <<SubSeq(text, 1, FirstCut(text, cuts))>>
         \o Split(SubSeq(text, FirstCut(text, cuts) + 1, Len(text)),
                  {k - FirstCut(text, cuts) : k \in cuts \ 1..FirstCut(text, cuts)})

\* the ways a server sends a body: every cut of every body into chunks
Chunkings ==
    UNION {{Split(text, cuts) : cuts \in SUBSET (1..(Len(text) - 1))} : text \in Bodies}

RECURSIVE Flatten(_)
Flatten(cs) == IF cs = <<>> THEN <<>> ELSE Head(cs) \o Flatten(Tail(cs))

\* JSON.parse(data): <<value>>, or NoValue when it throws; the documents are
\* the object without members and the object with an empty features array
JSONparse(text) ==
    IF text = <<"{", "}">> THEN <<[features |-> NoValue]>>
    ELSE IF text = <<"{", "\"features\":[]", "}">> THEN <<[features |-> <<<<>>>>]>>
    ELSE NoValue

\* processTimezoneData(geojson): <<the FeatureCollection>>, or NoValue when
\* geojson.features.map throws
processTimezoneData(geojson) ==
    IF geojson.features = NoValue THEN NoValue
    ELSE <<[type |-> "FeatureCollection", features |-> geojson.features[1]]>>

\* the try block of the 'end' handler: <<the processed collection>>, or
\* NoValue when JSON.parse or processTimezoneData throws
Processed(text) ==
    IF JSONparse(text) = NoValue THEN NoValue ELSE processTimezoneData(JSONparse(text)[1])

\* the file the 'end' handler writes
WrittenAtEnd(text) ==
    IF Processed(text) # NoValue
    THEN [name |-> "timezones-real.geojson", content |-> <<"JSON", Processed(text)[1]>>]
    ELSE [name |-> "timezones-raw.json", content |-> text]

\* the chunk that arrives when downloadedBytes pieces have arrived
NextChunk ==
    chunks[1 + Cardinality({k \in 1..Len(chunks) :
                               Len(Flatten(SubSeq(chunks, 1, k))) <= downloadedBytes})]

DownloadInit ==
    /\ UiIdle
    /\ ColorIdle
    /\ TermIdle
    /\ LiveIdle
    /\ CallIdle
    /\ FetchIdle
    /\ request = [state |-> "sent", hops |-> 0, statusCode |-> 0]
    /\ chunks = <<>>
    /\ data = <<>>
    /\ downloadedBytes = 0
    /\ files = <<>>
    /\ exitCode = NoValue

\* processResponse(response): the status check, and the handlers of 'data'
\* and 'end' for a body that the server sends in the chunks given
processResponse(statusCode, sent) ==
    IF statusCode # 200
    THEN /\ request' = [request EXCEPT !.state = "refused", !.statusCode = statusCode]
         /\ UNCHANGED <<chunks, data, downloadedBytes, files, exitCode>>
    ELSE /\ request' = [request EXCEPT !.state = "streaming", !.statusCode = statusCode]
         /\ chunks' = sent
         /\ data' = <<>>
         /\ downloadedBytes' = 0
         /\ UNCHANGED <<files, exitCode>>

\* the callback of https.get(jsonUrl, ...)
FirstResponse(statusCode, sent) ==
    /\ request.state = "sent"
    /\ IF statusCode = 302 \/ statusCode = 301
       THEN /\ request' = [state |-> "redirected", hops |-> request.hops + 1,
                            statusCode |-> statusCode]
            /\ UNCHANGED <<chunks, data, downloadedBytes, files, exitCode>>
       ELSE processResponse(statusCode, sent)
    /\ UNCHANGED <<colorVars, termVars, uiVars, liveVars, callVars, fetchVars>>

\* the response to https.get(response.headers.location, processResponse)
SecondResponse(statusCode, sent) ==
    /\ request.state = "redirected"
    /\ processResponse(statusCode, sent)
    /\ UNCHANGED <<colorVars, termVars, uiVars, liveVars, callVars, fetchVars>>

\* response.on('data')
OnData ==
    /\ request.state = "streaming"
    /\ downloadedBytes < Len(Flatten(chunks))
    /\ data' = data \o NextChunk
    /\ downloadedBytes' = downloadedBytes + Len(NextChunk)
    /\ UNCHANGED <<request, chunks, files, exitCode,
                   colorVars, termVars, uiVars, liveVars, callVars, fetchVars>>

\* response.on('end'), when the whole body has arrived
OnEnd ==
    /\ request.state = "streaming"
    /\ downloadedBytes = Len(Flatten(chunks))
    /\ files' = Append(files, WrittenAtEnd(data))
    /\ request' = [request EXCEPT !.state = "ended"]
    /\ UNCHANGED <<chunks, data, downloadedBytes, exitCode,
                   colorVars, termVars, uiVars, liveVars, callVars, fetchVars>>

\* the connection of the first request is open: no response yet, or one
\* that is being read, or one that is never read
FirstAttached ==
    \/ request.state \in {"sent", "redirected", "streaming", "refused"}
    \/ request.state = "ended" /\ request.hops = 1

\* .on('error') of the first request: process.exit(1)
OnError ==
    /\ FirstAttached
    /\ request' = [request EXCEPT !.state = "exited"]
    /\ exitCode' = <<1>>
    /\ UNCHANGED <<chunks, data, downloadedBytes, files,
                   colorVars, termVars, uiVars, liveVars, callVars, fetchVars>>

\* the second request emits 'error': before its response, while the body
\* arrives, or after a status that processResponse refused, whose response
\* is never read.  It has no listener, and the uncaught exception ends the
\* process with code 1
SecondError ==
    /\ \/ request.state = "redirected"
       \/ request.state \in {"streaming", "refused"} /\ request.hops = 1
    /\ request' = [request EXCEPT !.state = "uncaught"]
    /\ exitCode' = <<1>>
    /\ UNCHANGED <<chunks, data, downloadedBytes, files,
                   colorVars, termVars, uiVars, liveVars, callVars, fetchVars>>

DownloadNext ==
    \/ \E statusCode \in StatusCodes \cup {301}, sent \in Chunkings :
          FirstResponse(statusCode, sent)
    \/ \E statusCode \in StatusCodes \cup {301}, sent \in Chunkings :
          SecondResponse(statusCode, sent)
    \/ OnData
    \/ OnEnd
    \/ OnError
    \/ SecondError

SpecDownload == DownloadInit /\ [][DownloadNext]_vars

\* the one body that JSON.parse and processTimezoneData accept
GeoJson == <<"{", "\"features\":[]", "}">>

\* C23: when the response, after at most one redirect, has status 200 and
\* ends, exactly one file is written: timezones-real.geojson if the body
\* parses and is processed, otherwise timezones-raw.json holding the raw
\* body; no file is written when the status is not 200; and when the first
\* request errors no file is written and the process exits with code 1.
C23_OneFileByCase ==
    /\ request.hops <= 1
    /\ Len(files) <= 1
    /\ request.state = "ended" =>
          /\ request.statusCode = 200
          /\ Len(files) = 1
          /\ IF Flatten(chunks) = GeoJson
             THEN files[1].name = "timezones-real.geojson"
             ELSE files[1] = [name |-> "timezones-raw.json", content |-> Flatten(chunks)]
    /\ request.state \notin {"ended", "exited"} => files = <<>>
    /\ request.statusCode # 200 => files = <<>>
    /\ request.state = "exited" => files = <<>> /\ exitCode = <<1>>

=============================================================================
